---- MODULE Spec2Model ----
(***************************************************************************)
(* Resumable paginated extraction of the FunnelFox data loader             *)
(* (raw_funnelfox.py) and of the FunnelFox Singer tap (tap_funnelfox).     *)
(*                                                                         *)
(*   Spec      one endpoint synced by repeated runs of raw_funnelfox.py:   *)
(*             fetch_all's page loop with its fetch_page calls, the cursor *)
(*             file and the destination table, with process interruption.  *)
(*   SpecSink  the insert_* upserts applied to arbitrary pages.            *)
(*   SpecCalls one fetch_page call, attempt by attempt, and the tap:       *)
(*             FunnelFoxStream._request, request_decorator and             *)
(*             FunnelFoxPaginator driven by the SDK's page loop.           *)
(***************************************************************************)
EXTENDS Integers, Sequences, FiniteSets, TLC

VARIABLES
    \* ---- raw_funnelfox.py ----
    api,          \* what the vendor API serves for the endpoint (fixed per behaviour)
    cursors,      \* content of raw_funnelfox/cursors.json: endpoint -> state
    tables,       \* destination tables: table name -> set of rows
    now,          \* CURRENT_TIMESTAMP, at the granularity of a run
    pc,           \* position of the process in main / fetch_all
    cursor,       \* fetch_all: cursor
    total_count,  \* fetch_all: total_count
    items,        \* fetch_all: items (ids of the records, in order)
    page_num,     \* fetch_all: page_num
    completed,    \* fetch_all: completed
    data,         \* fetch_all: data, the last value fetch_page returned
    retry,        \* fetch_page: loop variable retry (SpecCalls)
    attempts,     \* HTTP requests sent by the last fetch_page call
    sleeps,       \* time.sleep calls of the fetch_page call (SpecCalls)
    lastErr,      \* outcome of the last HTTP attempt (SpecCalls)
    connOk,       \* psycopg2 connection is not in an aborted transaction
    runNo,        \* number of process runs started
    outcome,      \* how the current / last run of fetch_all ended
    reqLog,       \* cursors fetch_all's loop passed to fetch_page, this run
    sinkLog,      \* API pages handed to insert_func, this run
    hist,         \* facts about the past that the properties refer to
    \* ---- tap_funnelfox (SpecCalls) ----
    tapValue,     \* paginator.current_value: the query of the next-page URL
    tapCursor,    \* the cursor parameter of the prepared request
    tapInner,     \* _request: retries
    tapOuter,     \* request_decorator's wrapper: retries
    tapSends,     \* HTTP sends: of this _request call, of this page request
    tapSleeps,    \* time.sleep calls of this page request (wait times)
    tapResp,      \* body of the last response handed to the paginator
    tapNext,      \* what get_next_url returned for it
    tapPages,     \* page requests made by the stream
    tapErr,       \* the exception that ended the stream
    onlyRetryable,\* every attempt of the current call failed with a retryable failure
    \* ---- insert_* (SpecSink) ----
    sinkOp,       \* the last insert_* call: function, session_id, page
    sinkPrev,     \* the tables before the last insert_* call
    \* ---- main, fetch_session_replies, request parameters ----
    epIdx,        \* main: position of the loop over endpoints
    sessIdx,      \* fetch_session_replies: sessions handled so far
    respStatus,   \* fetch_session_replies: resp.status_code, 0 for resp None
    page_size,    \* the page size asked for (argument or config value)
    params,       \* the page size in the parameters of the request built
    \* ---- cursor file, offset pagers, sanitizer, dashboard ----
    store,        \* CURSOR_FILE as written on disk, and the call writing it
    pager,        \* iter_alerts of the Chargeback and Ethoca clients
    san,          \* sanitize_unicode: lines read and written
    dash          \* the Streamlit session of the dashboard

scriptVars == <<api, cursors, tables, now, pc, cursor, total_count, items,
                page_num, completed, data, retry, attempts, sleeps, lastErr,
                connOk, runNo, outcome, reqLog, sinkLog, hist>>
tapVars == <<tapValue, tapCursor, tapInner, tapOuter, tapSends, tapSleeps,
             tapResp, tapNext, tapPages, tapErr, onlyRetryable>>
sinkVars == <<sinkOp, sinkPrev>>
extVars == <<store, pager, san, dash>>
auxVars == <<epIdx, sessIdx, respStatus, page_size, params, extVars>>
vars == <<scriptVars, tapVars, sinkVars, auxVars>>

----------------------------------------------------------------------------
(* Bounds of the model *)

MaxPages == 3
MaxPageSize == 2
MaxRuns == 2
\* fetch_all's loop is followed for at most MaxPageNum pages per run
MaxPageNum == MaxPages + 1

(* Values *)

None == "None"
EmptyStr == ""

\* Python truthiness of a str | None
Truthy(v) == v \notin {None, EmptyStr}

Min(a, b) == IF a < b THEN a ELSE b

RECURSIVE Pow2(_)
Pow2(n) == IF n = 0 THEN 1 ELSE 2 * Pow2(n - 1)


----------------------------------------------------------------------------
(* Strings of the tap: sequences of characters                              *)

\* None, for values that are strings otherwise
NoneC == <<"None">>

\* the characters the API's cursors are made of
CursorChars == {"x", "+", " ", "&"}

MaxCursorLen == 2

CursorStrings == UNION {[1..n -> CursorChars] : n \in 1..MaxCursorLen}

\* urllib.parse.quote_plus of one character
QuoteChar(ch) ==
    CASE ch = " " -> <<"+">>
      [] ch = "+" -> <<"%", "2", "B">>
      [] ch = "%" -> <<"%", "2", "5">>
      [] ch = "&" -> <<"%", "2", "6">>
      [] ch = "=" -> <<"%", "3", "D">>
      [] ch = "#" -> <<"%", "2", "3">>
      [] OTHER -> <<ch>>

\* urllib.parse.quote_plus, as requests applies it to a parameter value
RECURSIVE quote_plus(_)
quote_plus(str) ==
    IF str = <<>> THEN <<>> ELSE QuoteChar(Head(str)) \o quote_plus(Tail(str))

\* the escapes the model's strings can hold, and the characters they denote
HexChar(a, b) ==
    CASE a = "2" /\ b = "B" -> "+"
      [] a = "2" /\ b = "5" -> "%"
      [] a = "2" /\ b = "6" -> "&"
      [] a = "3" /\ b = "D" -> "="
      [] a = "2" /\ b = "3" -> "#"
      [] a = "2" /\ b = "0" -> " "
      [] OTHER -> "?"

IsEscape(str) ==
    /\ Len(str) >= 3
    /\ str[1] = "%"
    /\ HexChar(str[2], str[3]) # "?"

\* urllib.parse.unquote of str.replace("+", " ")
RECURSIVE unquote_plus(_)
unquote_plus(str) ==
    IF str = <<>> THEN <<>>
    ELSE IF IsEscape(str)
    THEN <<HexChar(str[2], str[3])>> \o unquote_plus(SubSeq(str, 4, Len(str)))
    ELSE <<IF Head(str) = "+" THEN " " ELSE Head(str)>> \o unquote_plus(Tail(str))

\* the part of str before the first ch, and the part after it
RECURSIVE Before(_, _)
Before(str, ch) ==
    IF str = <<>> \/ Head(str) = ch THEN <<>>
    ELSE <<Head(str)>> \o Before(Tail(str), ch)

After(str, ch) == SubSeq(str, Len(Before(str, ch)) + 2, Len(str))

Has(str, ch) == \E i \in DOMAIN str : str[i] = ch

\* the query parameter names of the tap
CursorName == <<"c", "u", "r", "s", "o", "r">>
LimitField == <<"l", "i", "m", "i", "t", "=", "5", "0">>

\* urllib.parse.parse_qs(query).get(name, [None])[0]: the first non-blank
\* value of the field called name
RECURSIVE ParseQsFirst(_, _)
ParseQsFirst(query, name) ==
    IF query = <<>> THEN NoneC
    ELSE LET field == Before(query, "&")
             rest == After(query, "&")
         IN  IF /\ Has(field, "=")
                /\ After(field, "=") # <<>>
                /\ unquote_plus(Before(field, "=")) = name
             THEN unquote_plus(After(field, "="))
             ELSE ParseQsFirst(rest, name)

\* urlparse(url).query of url = base "?" tail: up to the fragment
UrlQuery(tail) == Before(tail, "#")

----------------------------------------------------------------------------
(* The vendor API, as seen by one list endpoint                            *)

\* the endpoint being synced, and another endpoint of main's list
\* the endpoints of main's loop (two of the six, in main's order), the one
\* being synced and the one after it
Endpoints == <<"sessions", "subscriptions">>
Endpoint == Endpoints[epIdx]
OtherEndpoint == "subscriptions"

\* the opaque cursor the API hands out after page k
Tok(k) == "c" \o ToString(k)

\* kinds of pagination metadata a page can carry
FaultKinds == {"loop", "null", "empty", "alt"}

\* An API serves n pages; page i holds size[i] records (a sparse page none,
\* any other page MaxPageSize); at most one page carries faulty pagination
\* metadata.
Apis ==
    { [n |-> n, size |-> sz, fault |-> f] :
        n \in 1..MaxPages, sz \in [1..MaxPages -> {0, MaxPageSize}],
        f \in [kind : FaultKinds \cup {"none"}, page : 0..MaxPages] }

\* pages past the last hold nothing; at most one page within is empty
WellFormedApi(a) ==
    /\ \A i \in 1..MaxPages : i > a.n => a.size[i] = 0
    /\ Cardinality({i \in 1..a.n : a.size[i] = 0}) <= 1
    /\ a.fault.kind = "none" => a.fault.page = 0
    /\ a.fault.kind \in {"null", "empty", "alt"} => a.fault.page \in 1..(a.n - 1)
    /\ a.fault.kind = "loop" => a.fault.page \in 2..a.n

\* the record in slot j of page i
ApiRecord(i, j) ==
    [id |-> (i - 1) * MaxPageSize + j, val |-> "v",
     profile |-> [isDict |-> TRUE, id |-> "p1"], profile_id |-> None]

PageItems(a, i) == [j \in 1..a.size[i] |-> ApiRecord(i, j)]

\* the page a request with cursor c asks for
PageOfCursor(c) ==
    IF c = None THEN 1 ELSE 1 + CHOOSE k \in 1..(MaxPages + 1) : Tok(k) = c

\* JSON body of a 2xx answer to GET /<endpoint>?cursor=c
Response(a, c) ==
    LET i == PageOfCursor(c)
        faulty == a.fault.page = i
        kind == IF faulty THEN a.fault.kind ELSE "none"
    IN  [ data |-> IF i <= a.n THEN PageItems(a, i) ELSE <<>>,
          page |-> i,
          has_more |-> (i < a.n) \/ (kind = "loop"),
          next_cursor |->
              CASE kind = "loop" -> c
                [] kind = "null" -> None
                [] kind = "alt" -> None
                [] kind = "empty" -> EmptyStr
                [] OTHER -> IF i < a.n THEN Tok(i) ELSE None,
          cursor |-> IF kind = "alt" THEN Tok(i) ELSE None ]

\* placeholder for `data` while no response is held
NoData == [data |-> <<>>, page |-> 0, has_more |-> FALSE,
           next_cursor |-> None, cursor |-> None]

RECURSIVE SumSizes(_, _)
SumSizes(a, k) == IF k = 0 THEN 0 ELSE a.size[k] + SumSizes(a, k - 1)

----------------------------------------------------------------------------
(* HTTP attempts                                                            *)

\* statuses on which fetch_page retries
RETRYABLE == {408, 429, 500, 502, 503, 504, 524}

\* error statuses the model's API answers with
ErrorStatuses == RETRYABLE \cup {401, 404, 501}

\* what one requests.get can do
Attempts ==
    {[kind |-> "ok", status |-> 200]}
    \cup {[kind |-> "HTTPError", status |-> s] : s \in ErrorStatuses}
    \cup {[kind |-> k, status |-> 0] :
            k \in {"Timeout", "ConnectionError", "ChunkedEncodingError"}}

NoAttempt == [kind |-> "none", status |-> 0]

\* the attempts of the tap's sends: both fatal statuses, two retryable
\* statuses and two of the exceptions
TapAttempts ==
    {o \in Attempts : o.kind \in {"ok", "Timeout", "ConnectionError"}
                        \/ o.status \in {401, 404, 503, 524}}

\* one attempt of each class, for the runs of the whole script
ScriptAttempts ==
    {o \in Attempts : o.kind \in {"ok", "Timeout"} \/ o.status \in {404, 503}}

max_retries == 5

\* wait_time of fetch_page
WaitTime(r) == Min(5 * Pow2(r), 60)

\* One iteration of fetch_page's for loop with loop variable r, the
\* request ending as o, resp being the body of a successful answer.
\* ctl: the iteration returns (value, or None when isNone), raises, or
\* sleeps `wait` seconds and goes on with the next iteration.
FetchPageIter_ShortBudget(r, o, resp) ==
    IF o.kind = "ok"
    THEN [ctl |-> "return", isNone |-> FALSE, value |-> resp, wait |-> 0]
    ELSE IF o.kind = "HTTPError" /\ o.status \notin RETRYABLE
    THEN [ctl |-> "raise", isNone |-> TRUE, value |-> NoData, wait |-> 0]
    ELSE IF r < max_retries - 2
    THEN [ctl |-> "retry", isNone |-> TRUE, value |-> NoData, wait |-> WaitTime(r)]
    ELSE [ctl |-> "return", isNone |-> TRUE, value |-> NoData, wait |-> 0]

FetchPageIter_RetryAll(r, o, resp) ==
    IF o.kind = "ok"
    THEN [ctl |-> "return", isNone |-> FALSE, value |-> resp, wait |-> 0]
    ELSE IF r < max_retries - 1
    THEN [ctl |-> "retry", isNone |-> TRUE, value |-> NoData, wait |-> WaitTime(r)]
    ELSE [ctl |-> "return", isNone |-> TRUE, value |-> NoData, wait |-> 0]

FetchPageIter(r, o, resp) ==
    IF o.kind = "ok"
    THEN [ctl |-> "return", isNone |-> FALSE, value |-> resp, wait |-> 0]
    ELSE IF o.kind = "HTTPError" /\ o.status \notin RETRYABLE
    THEN [ctl |-> "raise", isNone |-> TRUE, value |-> NoData, wait |-> 0]
    ELSE IF r < max_retries - 1
    THEN [ctl |-> "retry", isNone |-> TRUE, value |-> NoData, wait |-> WaitTime(r)]
    ELSE [ctl |-> "return", isNone |-> TRUE, value |-> NoData, wait |-> 0]

\* fetch_page from iteration r of its loop on, the requests ending as os in
\* turn: the result of the iteration that uses up os
RECURSIVE fetch_page(_, _, _)
fetch_page(r, os, resp) ==
    LET it == FetchPageIter(r, Head(os), resp) IN
    IF it.ctl = "retry" /\ Len(os) > 1
    THEN fetch_page(r + 1, Tail(os), resp)
    ELSE it

\* the number of requests that call of fetch_page makes
RECURSIVE requests_made(_, _, _)
requests_made(r, os, resp) ==
    LET it == FetchPageIter(r, Head(os), resp) IN
    IF it.ctl = "retry" /\ Len(os) > 1
    THEN requests_made(r + 1, Tail(os), resp)
    ELSE r + 1

\* how the requests of one fetch_page call of the script go: `fails`
\* retryable failures, then a request that ends as `last`
ScriptCalls == [fails : {0, 1, max_retries - 1}, last : ScriptAttempts]

Requests(c) ==
    [i \in 1..c.fails |->
        IF i % 2 = 1 THEN [kind |-> "HTTPError", status |-> 503]
        ELSE [kind |-> "Timeout", status |-> 0]] \o <<c.last>>

----------------------------------------------------------------------------
(* The cursor file                                                          *)

load_cursors == cursors

save_cursor_DropsOthers(cs, endpoint, c, count) ==
    [e \in {endpoint} |-> [count |-> count, cursor |-> IF Truthy(c) THEN c ELSE None]]

save_cursor(cs, endpoint, c, count) ==
    [e \in DOMAIN cs \cup {endpoint} |->
        IF e = endpoint
        THEN [count |-> count, cursor |-> IF Truthy(c) THEN c ELSE None]
        ELSE cs[e]]

clear_cursor_Kept(cs, endpoint) == cs

clear_cursor(cs, endpoint) ==
    IF endpoint \in DOMAIN cs
    THEN [e \in DOMAIN cs \ {endpoint} |-> cs[e]]
    ELSE cs

----------------------------------------------------------------------------
(* The sink: INSERT ... ON CONFLICT (id) DO UPDATE                          *)

\* INSERT ... VALUES vals ON CONFLICT (id) DO UPDATE SET <all columns>,
\* loaded_at = CURRENT_TIMESTAMP
Upsert_PlainInsert(T, vals, ts) ==
    T \cup {[id |-> vals[i].id, cols |-> vals[i].cols, loaded_at |-> ts] :
            i \in DOMAIN vals}

Upsert(T, vals, ts) ==
    {r \in T : \A i \in DOMAIN vals : vals[i].id # r.id}
    \cup {[id |-> vals[i].id, cols |-> vals[i].cols, loaded_at |-> ts] :
            i \in DOMAIN vals}

insert_sessions(T, page, ts) ==
    IF page = <<>> THEN T
    ELSE Upsert(T, [i \in DOMAIN page |->
                      [id |-> page[i].id, cols |-> <<page[i].val>>]], ts)

\* profile_id of insert_subscriptions: the nested profile's id when the item
\* holds a profile dict, else the item's profile_id
SubscriptionProfileId(item) ==
    IF item.profile.isDict THEN item.profile.id ELSE item.profile_id

insert_subscriptions(T, page, ts) ==
    IF page = <<>> THEN T
    ELSE Upsert(T, [i \in DOMAIN page |->
                      [id |-> page[i].id,
                       cols |-> <<page[i].val, SubscriptionProfileId(page[i])>>]], ts)

\* the data column is json.dumps(item)
insert_session_replies(T, session_id, page, ts) ==
    IF page = <<>> THEN T
    ELSE Upsert(T, [i \in DOMAIN page |->
                      [id |-> page[i].id, cols |-> <<session_id, page[i]>>]], ts)

\* rows without their loaded_at stamp
Rows(T) == {[id |-> r.id, cols |-> r.cols] : r \in T}

----------------------------------------------------------------------------
(* raw_funnelfox.py: main, fetch_all, fetch_page                            *)

Running == {"probe", "fetch", "got", "sunk", "saved", "clear"}

\* placeholder for tapResp while no response is held
NoTapResp == [isList |-> FALSE, has_more |-> FALSE, next_cursor |-> NoneC]

\* the tap and the sink harness at rest
TapIdle ==
    /\ tapValue = NoneC
    /\ tapCursor = NoneC
    /\ tapInner = 0
    /\ tapOuter = 0
    /\ tapSends = [call |-> 0, page |-> 0, raised |-> 0]
    /\ tapSleeps = <<>>
    /\ tapResp = NoTapResp
    /\ tapNext = NoneC
    /\ tapPages = 0
    /\ tapErr = "none"
    /\ onlyRetryable = TRUE

SinkIdle ==
    /\ sinkOp = [func |-> "none", page |-> <<>>, session_id |-> 0]
    /\ sinkPrev = [sessions |-> {}, subscriptions |-> {}, session_replies |-> {}]

\* nothing of the cursor file's bytes, the offset pagers, the sanitizer or
\* the dashboard is in play
ExtIdle ==
    /\ store = 0
    /\ pager = 0
    /\ san = 0
    /\ dash = 0

AuxIdle ==
    /\ epIdx = 1
    /\ sessIdx = 0
    /\ respStatus = 0
    /\ page_size = 0
    /\ params = 0
    /\ ExtIdle

NoHist == [sinkFailed |-> FALSE, failedAttempt |-> FALSE,
           startCursor |-> None, prevCursor |-> None, prevCount |-> 0,
           lastNext |-> None, ended |-> <<>>]

\* the checkpoints main's earlier runs can have left for the other endpoint
OtherStates == {[count |-> 2, cursor |-> "c1"]}

Init ==
    /\ api \in {a \in Apis : WellFormedApi(a)}
    /\ cursors \in {<<>>} \cup {[e \in {OtherEndpoint} |-> st] : st \in OtherStates}
    /\ tables = [sessions |-> {}, subscriptions |-> {}, session_replies |-> {}]
    /\ now = 0
    /\ pc = "idle"
    /\ cursor = None
    /\ total_count = 0
    /\ items = <<>>
    /\ page_num = 0
    /\ completed = FALSE
    /\ data = NoData
    /\ retry = 0
    /\ attempts = 0
    /\ sleeps = <<>>
    /\ lastErr = NoAttempt
    /\ connOk = TRUE
    /\ runNo = 0
    /\ outcome = "none"
    /\ reqLog = <<>>
    /\ sinkLog = <<>>
    /\ hist = NoHist
    /\ TapIdle
    /\ SinkIdle
    /\ AuxIdle

ScriptIdle ==
    /\ api \in {a \in Apis : a.n = 1 /\ a.size[1] = 0 /\ WellFormedApi(a)}
    /\ cursors = <<>>
    /\ tables = [sessions |-> {}, subscriptions |-> {}, session_replies |-> {}]
    /\ now = 0
    /\ cursor = None
    /\ total_count = 0
    /\ items = <<>>
    /\ page_num = 0
    /\ completed = FALSE
    /\ data = NoData
    /\ retry = 0
    /\ attempts = 0
    /\ sleeps = <<>>
    /\ lastErr = NoAttempt
    /\ connOk = TRUE
    /\ runNo = 0
    /\ outcome = "none"
    /\ reqLog = <<>>
    /\ sinkLog = <<>>
    /\ hist = NoHist

\* python raw_funnelfox.py: main connects and calls fetch_all(endpoint, ...,
\* resume=True), which sets its locals and calls fetch_page for the probe.
Start ==
    /\ pc \in {"idle", "exit"}
    /\ runNo < MaxRuns
    /\ runNo' = runNo + 1
    /\ pc' = "probe"
    /\ cursor' = None
    /\ total_count' = 0
    /\ items' = <<>>
    /\ page_num' = 0
    /\ completed' = FALSE
    /\ data' = NoData
    /\ retry' = 0
    /\ attempts' = 0
    /\ sleeps' = <<>>
    /\ lastErr' = NoAttempt
    /\ connOk' = TRUE
    /\ outcome' = "running"
    /\ reqLog' = <<>>
    /\ sinkLog' = <<>>
    /\ hist' = [hist EXCEPT !.failedAttempt = FALSE, !.lastNext = None,
                            !.startCursor = None,
                            !.prevCursor =
                                IF outcome = "exhausted" THEN cursor ELSE None,
                            !.prevCount =
                                IF outcome = "exhausted"
                                THEN total_count + Len(items) ELSE 0]
    /\ now' = now + 1
    /\ UNCHANGED <<api, cursors, tables, tapVars, sinkVars>>
    /\ UNCHANGED auxVars

\* pagination.get("next_cursor") or pagination.get("cursor")
NextCursor(d) == IF Truthy(d.next_cursor) THEN d.next_cursor ELSE d.cursor

\* fetch_all, lines 144-151: the saved state to resume from
ResumeCount(cs) ==
    IF Endpoint \in DOMAIN cs THEN cs[Endpoint].count ELSE 0

ResumeCursor_Ignored(cs) == None

ResumeCursor(cs) ==
    IF Endpoint \in DOMAIN cs /\ Truthy(cs[Endpoint].cursor)
    THEN cs[Endpoint].cursor ELSE None

\* Probe data = fetch_page(endpoint, {"limit": 1}), the requests going as c.
\* When fetch_page returns, fetch_all loads the saved cursor and enters its
\* loop.
Probe(c) ==
    /\ pc = "probe"
    /\ LET it == fetch_page(0, Requests(c), Response(api, None)) IN
       /\ it.ctl # "retry"
       /\ IF it.ctl = "raise"
          THEN /\ pc' = "exit"
               /\ outcome' = "raised"
               /\ UNCHANGED <<cursor, total_count, page_num, reqLog, hist>>
          ELSE /\ total_count' = ResumeCount(load_cursors)
               /\ cursor' = ResumeCursor(load_cursors)
               /\ page_num' = 1
               /\ reqLog' = <<cursor'>>
               /\ hist' = [hist EXCEPT !.startCursor = ResumeCursor(load_cursors)]
               /\ pc' = "fetch"
               /\ UNCHANGED outcome
    /\ UNCHANGED <<api, cursors, tables, now, items, completed, data, retry,
                   attempts, sleeps, lastErr, connOk, runNo, sinkLog, tapVars,
                   sinkVars>>
    /\ UNCHANGED auxVars

\* data = fetch_page(endpoint, query) in fetch_all's loop, the requests
\* going as c; when fetch_page returns None, lines 166-172 and the return.
\* saveEarly: the checkpoint is written as soon as the page has arrived
\* (the code writes it after the insert_func call: saveEarly = FALSE).
FetchWith(c, saveEarly) ==
    /\ pc = "fetch"
    /\ LET it == fetch_page(0, Requests(c), Response(api, cursor)) IN
       /\ it.ctl # "retry"
       /\ hist' = IF c.fails = 0 /\ c.last.kind = "ok" THEN hist
                  ELSE [hist EXCEPT !.failedAttempt = TRUE]
       /\ CASE it.ctl = "raise" ->
                 /\ pc' = "exit"
                 /\ outcome' = "raised"
                 /\ UNCHANGED <<data, cursors>>
            [] it.ctl = "return" /\ it.isNone ->
                 /\ cursors' = IF Truthy(cursor)
                               THEN save_cursor(load_cursors, Endpoint, cursor,
                                                total_count + Len(items))
                               ELSE cursors
                 /\ pc' = "exit"
                 /\ outcome' = "exhausted"
                 /\ UNCHANGED data
            [] it.ctl = "return" /\ ~it.isNone ->
                 /\ data' = it.value
                 /\ pc' = "got"
                 /\ cursors' =
                       IF saveEarly /\ Truthy(NextCursor(it.value)) /\ it.value.has_more
                       THEN save_cursor(load_cursors, Endpoint, NextCursor(it.value),
                                        total_count + Len(items) + Len(it.value.data))
                       ELSE cursors
                 /\ UNCHANGED outcome
    /\ UNCHANGED <<api, tables, now, cursor, total_count, items, page_num,
                   completed, retry, sleeps, lastErr, connOk, runNo,
                   reqLog, sinkLog, tapVars, sinkVars>>
    /\ UNCHANGED auxVars

Fetch_SaveEarly(c) == FetchWith(c, TRUE) /\ UNCHANGED attempts

Fetch(c) == FetchWith(c, FALSE) /\ UNCHANGED attempts

\* the same call, with the number of requests it made kept in attempts
FetchCounted(c) ==
    /\ FetchWith(c, FALSE)
    /\ attempts' = requests_made(0, Requests(c), Response(api, cursor))

\* fetch_all, lines 174-190: items.extend(page_items) and the insert_func
\* call; dbError: the INSERT or the commit raises.
SinkPage(dbError) ==
    /\ pc = "got"
    /\ items' = items \o [j \in DOMAIN data.data |-> data.data[j].id]
    /\ IF data.data # <<>>
       THEN /\ sinkLog' = Append(sinkLog, data.page)
            /\ IF connOk /\ ~dbError
               THEN /\ tables' =
                       IF Endpoint = "sessions"
                       THEN [tables EXCEPT !.sessions =
                                insert_sessions(@, data.data, now)]
                       ELSE [tables EXCEPT !.subscriptions =
                                insert_subscriptions(@, data.data, now)]
                    /\ UNCHANGED <<now, connOk, hist>>
               ELSE /\ connOk' = FALSE
                    /\ hist' = [hist EXCEPT !.sinkFailed = TRUE]
                    /\ UNCHANGED <<tables, now>>
       ELSE /\ dbError = FALSE
            /\ UNCHANGED <<sinkLog, tables, now, connOk, hist>>
    /\ pc' = "sunk"
    /\ UNCHANGED <<api, cursors, cursor, total_count, page_num, completed, data,
                   retry, attempts, sleeps, lastErr, runNo, outcome, reqLog,
                   tapVars, sinkVars>>
    /\ UNCHANGED auxVars

SaveStep_SkipEmpty ==
    /\ pc = "sunk"
    /\ cursors' = IF Truthy(NextCursor(data)) /\ data.has_more /\ data.data # <<>>
                  THEN save_cursor(load_cursors, Endpoint, NextCursor(data),
                                   total_count + Len(items))
                  ELSE cursors
    /\ pc' = "saved"
    /\ UNCHANGED <<api, tables, now, cursor, total_count, items, page_num,
                   completed, data, retry, attempts, sleeps, lastErr, connOk,
                   runNo, outcome, reqLog, sinkLog, hist, tapVars, sinkVars>>
    /\ UNCHANGED auxVars

\* fetch_all, lines 192-194
SaveStep ==
    /\ pc = "sunk"
    /\ cursors' = IF Truthy(NextCursor(data)) /\ data.has_more
                  THEN save_cursor(load_cursors, Endpoint, NextCursor(data),
                                   total_count + Len(items))
                  ELSE cursors
    /\ pc' = "saved"
    /\ UNCHANGED <<api, tables, now, cursor, total_count, items, page_num,
                   completed, data, retry, attempts, sleeps, lastErr, connOk,
                   runNo, outcome, reqLog, sinkLog, hist, tapVars, sinkVars>>
    /\ UNCHANGED auxVars

\* fetch_all, lines 196-210 and the next iteration's lines 157-164
Advance ==
    /\ pc = "saved"
    /\ IF ~data.has_more
       THEN /\ completed' = TRUE
            /\ pc' = "clear"
            /\ UNCHANGED <<cursor, page_num, retry, attempts, sleeps, outcome,
                           reqLog, hist>>
       ELSE IF ~Truthy(NextCursor(data))
       THEN /\ pc' = "exit"
            /\ outcome' = "no_cursor"
            /\ UNCHANGED <<cursor, page_num, retry, attempts, sleeps, completed,
                           reqLog, hist>>
       ELSE /\ page_num < MaxPageNum
            /\ cursor' = NextCursor(data)
            /\ page_num' = page_num + 1
            /\ reqLog' = Append(reqLog, NextCursor(data))
            /\ hist' = [hist EXCEPT !.lastNext = NextCursor(data)]
            /\ pc' = "fetch"
            /\ UNCHANGED <<completed, outcome, retry, attempts, sleeps>>
    /\ UNCHANGED <<api, cursors, tables, now, total_count, items, data, lastErr,
                   connOk, runNo, sinkLog, tapVars, sinkVars>>
    /\ UNCHANGED auxVars

\* fetch_all, lines 212-217
ClearStep ==
    /\ pc = "clear"
    /\ cursors' = clear_cursor(load_cursors, Endpoint)
    /\ pc' = "exit"
    /\ outcome' = "completed"
    /\ UNCHANGED <<api, tables, now, cursor, total_count, items, page_num,
                   completed, data, retry, attempts, sleeps, lastErr, connOk,
                   runNo, reqLog, sinkLog, hist, tapVars, sinkVars>>
    /\ UNCHANGED auxVars

\* the process is stopped (signal, power loss) between two steps
Interrupt ==
    /\ pc \in Running
    /\ pc' = "idle"
    /\ outcome' = "interrupted"
    /\ cursor' = None
    /\ total_count' = 0
    /\ items' = <<>>
    /\ page_num' = 0
    /\ completed' = FALSE
    /\ data' = NoData
    /\ retry' = 0
    /\ attempts' = 0
    /\ sleeps' = <<>>
    /\ lastErr' = NoAttempt
    /\ reqLog' = <<>>
    /\ sinkLog' = <<>>
    /\ connOk' = TRUE
    /\ hist' = [hist EXCEPT !.failedAttempt = FALSE, !.lastNext = None,
                            !.startCursor = None]
    /\ UNCHANGED <<api, cursors, tables, now, runNo, tapVars, sinkVars>>
    /\ UNCHANGED auxVars

Next ==
    \/ Start
    \/ \E c \in ScriptCalls : Probe(c)
    \/ \E c \in ScriptCalls : Fetch(c)
    \/ \E dbError \in BOOLEAN : SinkPage(dbError)
    \/ SaveStep
    \/ Advance
    \/ ClearStep
    \/ Interrupt

Spec == Init /\ [][Next]_vars

----------------------------------------------------------------------------
(* fetch_page called on its own                                             *)

IsRetryable(o) ==
    \/ o.kind \in {"Timeout", "ConnectionError", "ChunkedEncodingError"}
    \/ o.kind = "HTTPError" /\ o.status \in RETRYABLE

\* a caller calls fetch_page(endpoint, {"limit": 50, "cursor": cursor})
InitPageCall ==
    /\ ScriptIdle
    /\ TapIdle
    /\ SinkIdle
    /\ AuxIdle
    /\ pc = "page_call"

\* one iteration of fetch_page's for loop
PageAttempt(o) ==
    /\ pc = "page_call"
    /\ LET it == FetchPageIter(retry, o, Response(api, cursor)) IN
       /\ attempts' = attempts + 1
       /\ lastErr' = o
       /\ onlyRetryable' = (onlyRetryable /\ IsRetryable(o))
       /\ CASE it.ctl = "retry" ->
                 /\ retry' = retry + 1
                 /\ sleeps' = Append(sleeps, it.wait)
                 /\ UNCHANGED <<pc, data, outcome>>
            [] it.ctl = "raise" ->
                 /\ pc' = "page_raised"
                 /\ outcome' = "raised"
                 /\ UNCHANGED <<retry, sleeps, data>>
            [] it.ctl = "return" ->
                 /\ pc' = "page_returned"
                 /\ data' = it.value
                 /\ outcome' = IF it.isNone THEN "none_returned" ELSE "json_returned"
                 /\ UNCHANGED <<retry, sleeps>>
    /\ UNCHANGED <<api, cursors, tables, now, cursor, total_count, items,
                   page_num, completed, connOk, runNo, reqLog, sinkLog, hist,
                   tapValue, tapCursor, tapInner, tapOuter, tapSends,
                   tapSleeps, tapResp, tapNext, tapPages, tapErr, sinkVars>>
    /\ UNCHANGED auxVars

----------------------------------------------------------------------------
(* tap_funnelfox/client.py                                                  *)

MAX_RETRIES == 5

RETRY_STATUS_CODES == {408, 429, 500, 502, 503, 504, 524}

MaxTapPages == 3

TruthyC(str) == str \notin {NoneC, <<>>}

\* wait of backoff_wait_generator's _generator after k passes of its loop
RECURSIVE GeneratorWait(_)
GeneratorWait(k) == IF k = 0 THEN 5 ELSE 2 * GeneratorWait(k - 1)

backoff_wait_generator_NoCap(k) == GeneratorWait(k)

\* the k-th value of backoff_wait_generator (k = 0 for the first)
backoff_wait_generator(k) == Min(GeneratorWait(k), 60)

\* pagination metadata of the bodies the API answers with
TapResponses ==
    [isList : {FALSE}, has_more : BOOLEAN,
     next_cursor : CursorStrings \cup {NoneC, <<>>}]
    \cup {[isList |-> TRUE, has_more |-> FALSE, next_cursor |-> NoneC]}

\* the query of the URL requests builds from params = {"limit": 50} plus
\* "cursor": c when get_url_params set it
RequestQuery(c) ==
    IF c = NoneC THEN LimitField
    ELSE LimitField \o <<"&">> \o CursorName \o <<"=">> \o quote_plus(c)

\* FunnelFoxPaginator.get_next_url; the result is the part of the returned
\* URL after "<base_url>?", or None
get_next_url_NoLoopCheck(resp, requestQuery) ==
    IF resp.isList \/ ~resp.has_more \/ ~TruthyC(resp.next_cursor)
    THEN NoneC
    ELSE CursorName \o <<"=">> \o resp.next_cursor

get_next_url(resp, requestQuery) ==
    IF resp.isList THEN NoneC
    ELSE IF ~resp.has_more THEN NoneC
    ELSE IF ~TruthyC(resp.next_cursor) THEN NoneC
    ELSE LET current_cursor == ParseQsFirst(requestQuery, CursorName) IN
         IF resp.next_cursor = current_cursor THEN NoneC
         ELSE CursorName \o <<"=">> \o resp.next_cursor

\* FunnelFoxStream.get_url_params: the cursor parameter, or None when the
\* parameters hold none; token is what follows "?" in the next-page URL
get_url_params(token) ==
    IF token = NoneC THEN NoneC
    ELSE ParseQsFirst(UrlQuery(token), CursorName)

\* _request without its raises on an exhausted budget: the loop is left by
\* its condition and the send after it is made
RequestIter_NoRaise(retries, o) ==
    IF retries > MAX_RETRIES
    THEN [ctl |-> IF o.kind = "ok" THEN "return" ELSE "raise",
          retries |-> retries, wait |-> 0, final |-> TRUE]
    ELSE IF o.kind = "ok"
    THEN [ctl |-> "return", retries |-> retries, wait |-> 0, final |-> FALSE]
    ELSE IF o.kind = "HTTPError" /\ o.status \notin RETRY_STATUS_CODES
    THEN [ctl |-> "raise", retries |-> retries, wait |-> 0, final |-> FALSE]
    ELSE [ctl |-> "retry", retries |-> retries + 1,
          wait |-> backoff_wait_generator(Min(retries, MAX_RETRIES)),
          final |-> FALSE]

\* One pass through the body of _request's while loop (retries <=
\* MAX_RETRIES), or the final attempt after it, the send ending as o.
RequestIter(retries, o) ==
    IF retries > MAX_RETRIES
    THEN [ctl |-> IF o.kind = "ok" THEN "return" ELSE "raise",
          retries |-> retries, wait |-> 0, final |-> TRUE]
    ELSE IF o.kind = "ok"
    THEN [ctl |-> "return", retries |-> retries, wait |-> 0, final |-> FALSE]
    ELSE IF o.kind = "HTTPError" /\ o.status \notin RETRY_STATUS_CODES
    THEN [ctl |-> "raise", retries |-> retries, wait |-> 0, final |-> FALSE]
    ELSE IF retries + 1 <= MAX_RETRIES
    THEN [ctl |-> "retry", retries |-> retries + 1,
          wait |-> backoff_wait_generator(retries), final |-> FALSE]
    ELSE [ctl |-> "raise", retries |-> retries + 1, wait |-> 0, final |-> FALSE]

\* request_decorator's wrapper when func raised o: it calls func again
\* after a sleep, or re-raises.
WrapperIter(retries, o) ==
    IF o.kind = "HTTPError" /\ o.status \notin RETRY_STATUS_CODES
    THEN [ctl |-> "raise", retries |-> retries, wait |-> 0]
    ELSE IF retries + 1 < MAX_RETRIES
    THEN [ctl |-> "retry", retries |-> retries + 1,
          wait |-> backoff_wait_generator(retries)]
    ELSE [ctl |-> "raise", retries |-> retries + 1, wait |-> 0]

InitTap ==
    /\ ScriptIdle
    /\ TapIdle
    /\ SinkIdle
    /\ AuxIdle
    /\ pc = "tap_prepare"

\* the stream's page loop prepares the request for paginator.current_value
\* and enters the decorated _request
TapPrepare ==
    /\ pc = "tap_prepare"
    /\ tapPages < MaxTapPages
    /\ tapCursor' = get_url_params(tapValue)
    /\ tapPages' = tapPages + 1
    /\ tapInner' = 0
    /\ tapOuter' = 0
    /\ tapSends' = [call |-> 0, page |-> 0, raised |-> 0]
    /\ tapSleeps' = <<>>
    /\ onlyRetryable' = TRUE
    /\ lastErr' = NoAttempt
    /\ pc' = "tap_send"
    /\ UNCHANGED <<api, cursors, tables, now, cursor, total_count, items,
                   page_num, completed, data, retry, attempts, sleeps, connOk,
                   runNo, outcome, reqLog, sinkLog, hist, tapValue, tapResp,
                   tapNext, tapErr, sinkVars>>
    /\ UNCHANGED auxVars

\* one requests_session.send of _request, with what follows it in _request
\* and in the wrapper; resp is the body of a successful answer
TapSend(o, resp) ==
    /\ pc = "tap_send"
    /\ LET it == RequestIter(tapInner, o)
           w == WrapperIter(tapOuter, o)
           sent == [call |-> tapSends.call + 1, page |-> tapSends.page + 1,
                    raised |-> tapSends.raised]
       IN
       /\ lastErr' = IF it.ctl = "return" THEN NoAttempt ELSE o
       /\ onlyRetryable' = (onlyRetryable /\ IsRetryable(o))
       /\ CASE it.ctl = "retry" ->
                 /\ resp = NoTapResp
                 /\ tapInner' = it.retries
                 /\ tapSleeps' = Append(tapSleeps, it.wait)
                 /\ tapSends' = sent
                 /\ UNCHANGED <<pc, tapOuter, tapResp, tapErr>>
            [] it.ctl = "return" ->
                 /\ tapResp' = resp
                 /\ tapSends' = [call |-> 0, page |-> 0, raised |-> 0]
                 /\ tapInner' = 0
                 /\ tapOuter' = 0
                 /\ tapSleeps' = <<>>
                 /\ pc' = "tap_advance"
                 /\ UNCHANGED tapErr
            [] it.ctl = "raise" /\ w.ctl = "retry" ->
                 /\ resp = NoTapResp
                 /\ tapOuter' = w.retries
                 /\ tapInner' = 0
                 /\ tapSleeps' = Append(tapSleeps, w.wait)
                 /\ tapSends' = [call |-> 0, page |-> sent.page, raised |-> sent.call]
                 /\ UNCHANGED <<pc, tapResp, tapErr>>
            [] it.ctl = "raise" /\ w.ctl = "raise" ->
                 /\ resp = NoTapResp
                 /\ tapOuter' = w.retries
                 /\ tapInner' = it.retries
                 /\ tapSends' = [sent EXCEPT !.raised = sent.call]
                 /\ tapErr' = o.kind
                 /\ pc' = "tap_failed"
                 /\ UNCHANGED <<tapSleeps, tapResp>>
    /\ UNCHANGED <<api, cursors, tables, now, cursor, total_count, items,
                   page_num, completed, data, retry, attempts, sleeps, connOk,
                   runNo, outcome, reqLog, sinkLog, hist, tapValue, tapCursor,
                   tapNext, tapPages, sinkVars>>
    /\ UNCHANGED auxVars

\* paginator.advance(response): get_next_url, then the base paginator
\* stops on no next value and raises on an unchanged one
TapAdvance ==
    /\ pc = "tap_advance"
    /\ LET next == get_next_url(tapResp, RequestQuery(tapCursor)) IN
       /\ tapNext' = next
       /\ IF next = NoneC
          THEN /\ pc' = "tap_done"
               /\ UNCHANGED <<tapValue, tapErr>>
          ELSE IF next = tapValue
          THEN /\ pc' = "tap_failed"
               /\ tapErr' = "RuntimeError"
               /\ UNCHANGED tapValue
          ELSE /\ tapValue' = next
               /\ pc' = "tap_prepare"
               /\ UNCHANGED tapErr
    /\ UNCHANGED <<api, cursors, tables, now, cursor, total_count, items,
                   page_num, completed, data, retry, attempts, sleeps, lastErr,
                   connOk, runNo, outcome, reqLog, sinkLog, hist, tapCursor,
                   tapInner, tapOuter, tapSends, tapSleeps, tapResp, tapPages,
                   onlyRetryable, sinkVars>>
    /\ UNCHANGED auxVars

----------------------------------------------------------------------------
(* raw_funnelfox.py: fetch_session_replies                                  *)

MaxSessions == 2

\* statuses on which fetch_session_replies retries
REPLIES_RETRYABLE == {408, 429, 500, 502, 503, 504}

\* wait_time of fetch_session_replies
ReplyWaitTime(r) == Min(2 * Pow2(r), 30)

\* the replies a 200 answer holds
ReplyPages == {<<>>, <<[id |-> 1, val |-> "v"]>>}

\* One iteration of the for loop of fetch_session_replies (its max_retries
\* is 5 as well) with loop variable r, the request ending as o; prev is the
\* status of the response resp held before, 0 for None.  A
\* ChunkedEncodingError is none of the exceptions the loop catches.
ReplyIter(r, o, prev) ==
    IF o.kind = "ok"
    THEN [ctl |-> "break", resp |-> 200, wait |-> 0]
    ELSE IF o.kind = "HTTPError" /\ o.status = 404
    THEN [ctl |-> "break", resp |-> 404, wait |-> 0]
    ELSE IF o.kind = "ChunkedEncodingError"
    THEN [ctl |-> "raise", resp |-> prev, wait |-> 0]
    ELSE IF o.kind = "HTTPError" /\ o.status \notin REPLIES_RETRYABLE
    THEN [ctl |-> "break", resp |-> o.status, wait |-> 0]
    ELSE IF r < max_retries - 1
    THEN [ctl |-> "retry",
          resp |-> IF o.kind = "HTTPError" THEN o.status ELSE prev,
          wait |-> ReplyWaitTime(r)]
    ELSE [ctl |-> "break", resp |-> 0, wait |-> 0]

\* main calls fetch_session_replies(conn, sessions) with MaxSessions
\* sessions, each with an id
InitReplies ==
    /\ ScriptIdle
    /\ TapIdle
    /\ SinkIdle
    /\ AuxIdle
    /\ pc = "replies_call"

\* one iteration of the retry loop for session sessIdx + 1
ReplyAttempt(o) ==
    /\ pc = "replies_call"
    /\ LET it == ReplyIter(retry, o, respStatus) IN
       /\ attempts' = attempts + 1
       /\ lastErr' = o
       /\ respStatus' = it.resp
       /\ CASE it.ctl = "retry" ->
                 /\ retry' = retry + 1
                 /\ sleeps' = Append(sleeps, it.wait)
                 /\ UNCHANGED <<pc, outcome>>
            [] it.ctl = "break" ->
                 /\ pc' = "replies_got"
                 /\ UNCHANGED <<retry, sleeps, outcome>>
            [] it.ctl = "raise" ->
                 /\ pc' = "replies_raised"
                 /\ outcome' = "raised"
                 /\ UNCHANGED <<retry, sleeps>>
    /\ UNCHANGED <<api, cursors, tables, now, cursor, total_count, items,
                   page_num, completed, data, connOk, runNo, reqLog, sinkLog,
                   hist, tapVars, sinkVars, epIdx, sessIdx, page_size, params,
                   extVars>>

\* what follows the retry loop: the session is skipped when resp is None or
\* a 404; else resp.json() is read inside try/except Exception and the
\* replies, if any, are inserted; then the next session
ReplyProcess(replies) ==
    /\ pc = "replies_got"
    /\ IF respStatus = 200 /\ replies # <<>>
       THEN /\ now' = now + 1
            /\ tables' = [tables EXCEPT !.session_replies =
                            insert_session_replies(@, sessIdx + 1, replies, now')]
       ELSE /\ replies = <<>>
            /\ UNCHANGED <<tables, now>>
    /\ sessIdx' = sessIdx + 1
    /\ respStatus' = 0
    /\ retry' = 0
    /\ attempts' = 0
    /\ sleeps' = <<>>
    /\ lastErr' = NoAttempt
    /\ pc' = IF sessIdx + 1 < MaxSessions THEN "replies_call" ELSE "replies_done"
    /\ UNCHANGED <<api, cursors, cursor, total_count, items, page_num,
                   completed, data, connOk, runNo, outcome, reqLog, sinkLog,
                   hist, tapVars, sinkVars, epIdx, page_size, params, extVars>>

----------------------------------------------------------------------------
(* tap_funnelfox/streams.py: SessionRepliesStream                           *)

\* what the EmptyResponse of SessionRepliesStream._request offers
EmptyResponse == {"status_code", "json"}

\* the replies stream requests the replies of each of MaxSessions parent
\* sessions through request_decorator(self._request)
InitTapReplies ==
    /\ ScriptIdle
    /\ TapIdle
    /\ SinkIdle
    /\ AuxIdle
    /\ pc = "tap_replies_send"

\* One requests_session.send of FunnelFoxStream._request under
\* SessionRepliesStream._request, with what follows it there and in
\* request_decorator's wrapper.  The override turns an exception whose
\* response is a 404 into an EmptyResponse, on which the wrapper then calls
\* raise_for_status.
TapRepliesSend(o) ==
    /\ pc = "tap_replies_send"
    /\ LET it == RequestIter(tapInner, o)
           w == WrapperIter(tapOuter, o)
           sent == [call |-> tapSends.call + 1, page |-> tapSends.page + 1,
                    raised |-> tapSends.raised]
           notFound == o.kind = "HTTPError" /\ o.status = 404
       IN
       /\ lastErr' = IF it.ctl = "return" THEN NoAttempt ELSE o
       /\ onlyRetryable' = (onlyRetryable /\ IsRetryable(o))
       /\ CASE it.ctl = "retry" ->
                 /\ tapInner' = it.retries
                 /\ tapSleeps' = Append(tapSleeps, it.wait)
                 /\ tapSends' = sent
                 /\ UNCHANGED <<pc, tapOuter, tapErr, sessIdx, respStatus>>
            [] it.ctl = "return" ->
                 /\ tapSends' = [call |-> 0, page |-> 0, raised |-> 0]
                 /\ tapInner' = 0
                 /\ tapOuter' = 0
                 /\ tapSleeps' = <<>>
                 /\ sessIdx' = sessIdx + 1
                 /\ respStatus' = 200
                 /\ pc' = IF sessIdx + 1 < MaxSessions
                          THEN "tap_replies_send" ELSE "tap_replies_done"
                 /\ UNCHANGED tapErr
            [] it.ctl = "raise" /\ notFound ->
                 /\ respStatus' = 404
                 /\ tapSends' = sent
                 /\ IF "raise_for_status" \in EmptyResponse
                    THEN /\ sessIdx' = sessIdx + 1
                         /\ pc' = IF sessIdx + 1 < MaxSessions
                                  THEN "tap_replies_send" ELSE "tap_replies_done"
                         /\ UNCHANGED tapErr
                    ELSE /\ tapErr' = "AttributeError"
                         /\ pc' = "tap_replies_failed"
                         /\ UNCHANGED sessIdx
                 /\ UNCHANGED <<tapInner, tapOuter, tapSleeps>>
            [] it.ctl = "raise" /\ ~notFound /\ w.ctl = "retry" ->
                 /\ tapOuter' = w.retries
                 /\ tapInner' = 0
                 /\ tapSleeps' = Append(tapSleeps, w.wait)
                 /\ tapSends' = [call |-> 0, page |-> sent.page, raised |-> sent.call]
                 /\ UNCHANGED <<pc, tapErr, sessIdx, respStatus>>
            [] it.ctl = "raise" /\ ~notFound /\ w.ctl = "raise" ->
                 /\ tapOuter' = w.retries
                 /\ tapInner' = it.retries
                 /\ tapSends' = [sent EXCEPT !.raised = sent.call]
                 /\ tapErr' = o.kind
                 /\ pc' = "tap_replies_failed"
                 /\ UNCHANGED <<tapSleeps, sessIdx, respStatus>>
    /\ UNCHANGED <<api, cursors, tables, now, cursor, total_count, items,
                   page_num, completed, data, retry, attempts, sleeps, connOk,
                   runNo, outcome, reqLog, sinkLog, hist, tapValue, tapCursor,
                   tapResp, tapNext, tapPages, sinkVars, epIdx, page_size,
                   params, extVars>>

InitCalls == InitPageCall \/ InitTap \/ InitReplies \/ InitTapReplies

NextCalls ==
    \/ \E o \in Attempts : PageAttempt(o)
    \/ TapPrepare
    \/ \E o \in TapAttempts :
          \E resp \in (IF o.kind = "ok" THEN TapResponses ELSE {NoTapResp}) :
             TapSend(o, resp)
    \/ TapAdvance
    \/ \E o \in Attempts : ReplyAttempt(o)
    \/ \E replies \in ReplyPages : ReplyProcess(replies)
    \/ \E o \in TapAttempts : TapRepliesSend(o)

SpecCalls == InitCalls /\ [][NextCalls]_vars

----------------------------------------------------------------------------
(* The insert_* functions called on their own                               *)

MaxSinkCalls == 3

SinkIds == {1, 2}

SessionItems == [id : SinkIds, val : {"v", "w"}]

SubscriptionItems ==
    [id : SinkIds, val : {"v"},
     profile : {[isDict |-> FALSE, id |-> None], [isDict |-> TRUE, id |-> "p1"]},
     profile_id : {None, "p2"}]

ReplyItems == [id : SinkIds, val : {"v", "w"}]

SessionIds == {"s1", "s2"}

\* pages of at most MaxPageSize items with distinct ids
PagesOf(Items) ==
    {pg \in UNION {[1..n -> Items] : n \in 0..MaxPageSize} :
        \A i, j \in DOMAIN pg : i # j => pg[i].id # pg[j].id}

InitSink ==
    /\ ScriptIdle
    /\ TapIdle
    /\ SinkIdle
    /\ AuxIdle
    /\ pc \in {"sink_sessions", "sink_subscriptions", "sink_session_replies"}

InsertSessions(page) ==
    /\ pc = "sink_sessions"
    /\ now < MaxSinkCalls
    /\ now' = now + 1
    /\ sinkPrev' = tables
    /\ sinkOp' = [func |-> "sessions", page |-> page, session_id |-> None]
    /\ tables' = [tables EXCEPT !.sessions = insert_sessions(@, page, now')]
    /\ UNCHANGED <<api, cursors, pc, cursor, total_count, items, page_num,
                   completed, data, retry, attempts, sleeps, lastErr, connOk,
                   runNo, outcome, reqLog, sinkLog, hist, tapVars>>
    /\ UNCHANGED auxVars

InsertSubscriptions(page) ==
    /\ pc = "sink_subscriptions"
    /\ now < MaxSinkCalls
    /\ now' = now + 1
    /\ sinkPrev' = tables
    /\ sinkOp' = [func |-> "subscriptions", page |-> page, session_id |-> None]
    /\ tables' = [tables EXCEPT !.subscriptions = insert_subscriptions(@, page, now')]
    /\ UNCHANGED <<api, cursors, pc, cursor, total_count, items, page_num,
                   completed, data, retry, attempts, sleeps, lastErr, connOk,
                   runNo, outcome, reqLog, sinkLog, hist, tapVars>>
    /\ UNCHANGED auxVars

InsertSessionReplies(session_id, page) ==
    /\ pc = "sink_session_replies"
    /\ now < MaxSinkCalls
    /\ now' = now + 1
    /\ sinkPrev' = tables
    /\ sinkOp' = [func |-> "session_replies", page |-> page,
                  session_id |-> session_id]
    /\ tables' = [tables EXCEPT !.session_replies =
                     insert_session_replies(@, session_id, page, now')]
    /\ UNCHANGED <<api, cursors, pc, cursor, total_count, items, page_num,
                   completed, data, retry, attempts, sleeps, lastErr, connOk,
                   runNo, outcome, reqLog, sinkLog, hist, tapVars>>
    /\ UNCHANGED auxVars

NextSink ==
    \/ \E page \in PagesOf(SessionItems) : InsertSessions(page)
    \/ \E page \in PagesOf(SubscriptionItems) : InsertSubscriptions(page)
    \/ \E sid \in SessionIds, page \in PagesOf(ReplyItems) :
          InsertSessionReplies(sid, page)

SpecSink == InitSink /\ [][NextSink]_vars

----------------------------------------------------------------------------
(* Properties of the script                                                 *)

\* the API keeps the pagination contract on every page
ContractKept == api.fault.kind = "none"

\* the rows one uninterrupted run over all pages leaves in the table
AllRows ==
    UNION { {[id |-> ApiRecord(i, j).id, cols |-> <<ApiRecord(i, j).val>>] :
                j \in 1..api.size[i]} : i \in 1..api.n }

\* C1: resume correctness. Whenever a run of fetch_all completes, after any
\* number of earlier runs that were interrupted between two steps or stopped
\* by retry exhaustion or by an error status, and no insert has failed, the
\* destination rows (without loaded_at) are the rows of all N pages.
C1_ResumeCorrectness ==
    (pc = "exit" /\ outcome = "completed" /\ ContractKept /\ ~hist.sinkFailed)
        => Rows(tables.sessions) = AllRows

\* a second run completed after resuming behind page k >= 1 of 3
C1_Witness ==
    /\ pc = "exit" /\ outcome = "completed" /\ ContractKept /\ ~hist.sinkFailed
    /\ runNo = 2 /\ api.n = 3 /\ hist.startCursor = Tok(1)
    /\ hist.prevCursor = None
    /\ Cardinality(tables.sessions) = 3 * MaxPageSize

\* C2: retry exhaustion on page k+1 (k >= 1, so the request carried a
\* cursor) ends fetch_all with the checkpoint present, its cursor the one
\* page k returned and its count the number of records of pages 1..k; and
\* the first request of the loop of the next run carries exactly that cursor.
C2_ExhaustedCheckpoint ==
    /\ (pc = "exit" /\ outcome = "exhausted" /\ Truthy(cursor)) =>
          /\ ~completed
          /\ Endpoint \in DOMAIN cursors
          /\ cursors[Endpoint].cursor = cursor
          /\ cursors[Endpoint].count = total_count + Len(items)
          /\ hist.lastNext # None => cursor = hist.lastNext
          /\ api.fault.kind # "loop" =>
                 cursors[Endpoint].count = SumSizes(api, PageOfCursor(cursor) - 1)
    /\ (pc \in {"fetch", "got"} /\ page_num = 1
          /\ Truthy(hist.prevCursor)) =>
          /\ cursor = hist.prevCursor
          /\ total_count = hist.prevCount
          /\ reqLog = <<hist.prevCursor>>
          /\ pc = "got" => data.page = PageOfCursor(hist.prevCursor)

\* run 1 gave up on page 2 of 3; run 2 has fetched page 2 as its first page
C2_Witness ==
    /\ runNo = 2 /\ api.n = 3 /\ pc = "got" /\ page_num = 1
    /\ hist.prevCursor = Tok(1)
    /\ hist.prevCount = MaxPageSize
    /\ data.page = 2

\* the pages that hold records, in page order
RECURSIVE NonEmptyPages(_)
NonEmptyPages(k) ==
    IF k = 0 THEN <<>>
    ELSE NonEmptyPages(k - 1) \o (IF api.size[k] > 0 THEN <<k>> ELSE <<>>)

\* the ids of the records of pages 1..k, in order
RECURSIVE AllIds(_)
AllIds(k) ==
    IF k = 0 THEN <<>>
    ELSE AllIds(k - 1) \o [j \in 1..api.size[k] |-> ApiRecord(k, j).id]

\* C3: clean full sync. A run that starts without a checkpoint, against an
\* API that keeps the contract, with no failed request in the loop, ends
\* completed, has handed each page that holds records to the sink once, in
\* page order, returns the records of all pages, and leaves no checkpoint
\* entry for the endpoint.
C3_CleanFullSync ==
    (pc = "exit" /\ outcome # "raised" /\ ContractKept
        /\ ~hist.failedAttempt /\ hist.startCursor = None) =>
        /\ outcome = "completed" /\ completed
        /\ sinkLog = NonEmptyPages(api.n)
        /\ items = AllIds(api.n)
        /\ Endpoint \notin DOMAIN cursors

\* 3 full pages synced in one clean run
C3_Witness ==
    /\ pc = "exit" /\ outcome = "completed" /\ runNo = 1
    /\ ~hist.failedAttempt /\ hist.startCursor = None
    /\ api.n = 3 /\ \A i \in 1..3 : api.size[i] = MaxPageSize
    /\ sinkLog = <<1, 2, 3>>
    /\ Cardinality(tables.sessions) = 3 * MaxPageSize
    /\ OtherEndpoint \in DOMAIN cursors

\* C6: loop detection in fetch_all. fetch_all never passes to fetch_page
\* the cursor of the request before: a page that reports has_more = true
\* with the cursor it was fetched with ends the loop.
C6_FetchAllLoopStops ==
    /\ \A i \in 1..(Len(reqLog) - 1) : reqLog[i + 1] # reqLog[i]
    /\ (pc = "exit" /\ data.has_more /\ Truthy(cursor) /\ NextCursor(data) = cursor
          /\ data.page = PageOfCursor(cursor)) => ~completed

\* fetch_all ended on a page with has_more = true and no next cursor:
\* completed is false and the checkpoint is the one of before the page
HasMoreContractFetchAll ==
    (pc = "exit" /\ data.page # 0 /\ data.has_more /\ ~Truthy(NextCursor(data))) =>
        /\ outcome = "no_cursor"
        /\ ~completed
        /\ IF Truthy(cursor)
           THEN /\ Endpoint \in DOMAIN cursors
                /\ cursors[Endpoint] =
                      [count |-> total_count + Len(items) - Len(data.data),
                       cursor |-> cursor]
           ELSE Endpoint \notin DOMAIN cursors

----------------------------------------------------------------------------
(* Properties of the sink                                                   *)

\* the last insert_* call applied to table T at time ts
ApplySinkOp(T, ts) ==
    CASE sinkOp.func = "sessions" -> insert_sessions(T, sinkOp.page, ts)
      [] sinkOp.func = "subscriptions" -> insert_subscriptions(T, sinkOp.page, ts)
      [] sinkOp.func = "session_replies" ->
            insert_session_replies(T, sinkOp.session_id, sinkOp.page, ts)

\* the columns the last insert_* call wrote for item
SinkCols(item) ==
    CASE sinkOp.func = "sessions" -> <<item.val>>
      [] sinkOp.func = "subscriptions" ->
            <<item.val, IF item.profile.isDict THEN item.profile.id
                        ELSE item.profile_id>>
      [] sinkOp.func = "session_replies" -> <<sinkOp.session_id, item>>

\* C4: idempotent upsert. After any insert_* call with a page of distinct
\* ids, on any table the earlier calls have left: no id is in two rows; the
\* row of each id of the page holds the fields of the page's record; the
\* rows of the other ids are those of before the call; and applying the
\* same page once more leaves the same rows (loaded_at aside).
C4_IdempotentUpsert ==
    sinkOp.func # "none" =>
        LET T == tables[sinkOp.func]
            P == sinkPrev[sinkOp.func]
            ids == {sinkOp.page[i].id : i \in DOMAIN sinkOp.page}
        IN  /\ \A r1, r2 \in T : r1.id = r2.id => r1 = r2
            /\ \A i \in DOMAIN sinkOp.page :
                  [id |-> sinkOp.page[i].id, cols |-> SinkCols(sinkOp.page[i])]
                      \in Rows(T)
            /\ {r \in Rows(T) : r.id \notin ids} = {r \in Rows(P) : r.id \notin ids}
            /\ Rows(ApplySinkOp(T, now + 1)) = Rows(T)
            /\ Cardinality(ApplySinkOp(T, now + 1)) = Cardinality(T)

\* a page of two records has been applied to a table that held them
\* already, one of them with other fields: same ids, stamps renewed
C4_Witness ==
    /\ sinkOp.func = "subscriptions"
    /\ Len(sinkOp.page) = 2
    /\ Cardinality(sinkPrev.subscriptions) = 2
    /\ Cardinality(tables.subscriptions) = 2
    /\ Rows(sinkPrev.subscriptions) # Rows(tables.subscriptions)
    /\ \A r \in tables.subscriptions : r.loaded_at = now
    /\ \E r \in tables.subscriptions : r.cols[2] = "p1"

----------------------------------------------------------------------------
(* Properties of the retry loops and of the tap paginator                   *)

\* the paginator has just handled the response to the last request
JustAdvanced ==
    /\ tapPages > 0
    /\ \/ pc \in {"tap_done", "tap_prepare"}
       \/ pc = "tap_failed" /\ tapErr = "RuntimeError"

\* C5: loop detection in the tap paginator. When the response to a request
\* sent with cursor c has has_more = true and next_cursor = c, get_next_url
\* returns None and the stream's pagination is finished: no further page is
\* requested.
C5_TapLoopDetection ==
    (JustAdvanced /\ ~tapResp.isList /\ tapResp.has_more
        /\ tapCursor # NoneC /\ tapResp.next_cursor = tapCursor)
    => (tapNext = NoneC /\ pc = "tap_done")

\* the second page answered with the cursor it was requested with, a
\* cursor that is written differently in the URL
C5_Witness ==
    /\ JustAdvanced /\ tapResp.has_more /\ tapPages = 2
    /\ tapCursor = <<"x", " ">> /\ tapResp.next_cursor = tapCursor
    /\ pc = "tap_done"

\* C7: has-more contract enforcement. A response with has_more = true and
\* no next cursor ends the pager in a failure outcome: fetch_all stops with
\* completed false and the checkpoint untouched, and the tap's stream does
\* not end the way it ends on has_more = false (finished, no error).
C7_HasMoreContract ==
    /\ HasMoreContractFetchAll
    /\ (JustAdvanced /\ ~tapResp.isList /\ tapResp.has_more
          /\ ~TruthyC(tapResp.next_cursor)) =>
          <<pc, tapErr>> # <<"tap_done", "none">>

\* C9: retry budget of the tap. When every send of a page request fails
\* with a retryable failure, a call of _request raises after exactly
\* MAX_RETRIES sends, and the decorated request has made exactly
\* MAX_RETRIES sends when the failure reaches the stream.
C9_TapRetryBudget ==
    /\ (tapSends.raised # 0 /\ onlyRetryable) => tapSends.raised = MAX_RETRIES
    /\ (pc = "tap_failed" /\ tapErr # "RuntimeError" /\ onlyRetryable) =>
          tapSends.page = MAX_RETRIES

\* C8: retry budget of fetch_page. While every attempt has failed with a
\* retryable failure, fetch_page has slept once after each attempt and goes
\* on, up to 4 attempts; it returns None exactly after max_retries = 5
\* attempts, with 4 sleeps between them.
C8_FetchPageBudget ==
    /\ (pc = "page_call" /\ onlyRetryable) =>
          /\ attempts < max_retries
          /\ attempts = retry
          /\ Len(sleeps) = attempts
    /\ (pc = "page_returned" /\ outcome = "none_returned") =>
          /\ onlyRetryable
          /\ attempts = max_retries
          /\ Len(sleeps) = max_retries - 1
    /\ (pc \in {"page_returned", "page_raised"} /\ onlyRetryable) =>
          outcome = "none_returned"

\* five retryable failures, of different kinds, then None
C8_Witness ==
    /\ pc = "page_returned" /\ outcome = "none_returned"
    /\ attempts = 5 /\ sleeps = <<5, 10, 20, 40>>
    /\ lastErr.kind = "ChunkedEncodingError"

\* the statuses the specification calls retryable
RetryableStatuses == {408, 429, 500, 502, 503, 504, 524}

IsFatal(o) == o.kind = "HTTPError" /\ o.status \notin RetryableStatuses

\* C10: fatal failures are never retried. An attempt that answers with an
\* error status outside the retryable set makes fetch_page and the tap's
\* _request raise at once: it is the last attempt, no sleep follows it,
\* whatever the number of retries before it.
C10_FatalNotRetried ==
    /\ (pc \in {"page_call", "page_returned", "page_raised"} /\ IsFatal(lastErr)) =>
          /\ pc = "page_raised"
          /\ Len(sleeps) = attempts - 1
    /\ (pc \in {"tap_prepare", "tap_send", "tap_advance", "tap_done", "tap_failed"}
          /\ IsFatal(lastErr)) =>
          /\ pc = "tap_failed"
          /\ tapErr = "HTTPError"
          /\ Len(tapSleeps) = tapSends.page - 1

\* fetch_page raised on a 404 that followed two retried failures
C10_Witness ==
    /\ pc = "page_raised" /\ lastErr.status = 404
    /\ attempts = 3 /\ sleeps = <<5, 10>>

----------------------------------------------------------------------------
(* main: one run of the script over its endpoints                           *)

NextResource_Eager ==
    /\ pc \in {"exit", "saved"}
    /\ outcome # "raised"
    /\ epIdx < Len(Endpoints)
    /\ epIdx' = epIdx + 1
    /\ hist' = [hist EXCEPT !.ended = Append(@, outcome),
                            !.failedAttempt = FALSE, !.lastNext = None,
                            !.startCursor = None]
    /\ pc' = "probe"
    /\ cursor' = None
    /\ total_count' = 0
    /\ items' = <<>>
    /\ page_num' = 0
    /\ completed' = FALSE
    /\ data' = NoData
    /\ attempts' = 0
    /\ outcome' = "running"
    /\ reqLog' = <<>>
    /\ sinkLog' = <<>>
    /\ UNCHANGED <<api, cursors, tables, now, retry, sleeps, lastErr, connOk,
                   runNo, tapVars, sinkVars, sessIdx, respStatus, page_size,
                   params, extVars>>

\* main, lines 649-657 and the next iteration of the loop over endpoints:
\* fetch_all has returned, main goes on with the next endpoint
NextResource ==
    /\ pc = "exit"
    /\ outcome # "raised"
    /\ epIdx < Len(Endpoints)
    /\ epIdx' = epIdx + 1
    /\ hist' = [hist EXCEPT !.ended = Append(@, outcome),
                            !.failedAttempt = FALSE, !.lastNext = None,
                            !.startCursor = None]
    /\ pc' = "probe"
    /\ cursor' = None
    /\ total_count' = 0
    /\ items' = <<>>
    /\ page_num' = 0
    /\ completed' = FALSE
    /\ data' = NoData
    /\ attempts' = 0
    /\ outcome' = "running"
    /\ reqLog' = <<>>
    /\ sinkLog' = <<>>
    /\ UNCHANGED <<api, cursors, tables, now, retry, sleeps, lastErr, connOk,
                   runNo, tapVars, sinkVars, sessIdx, respStatus, page_size,
                   params, extVars>>

\* main, lines 659-674, run with --skip-replies: fetch_all has returned for
\* the last endpoint; main prints its success message and returns
MainEnd ==
    /\ pc = "exit"
    /\ outcome # "raised"
    /\ epIdx = Len(Endpoints)
    /\ hist' = [hist EXCEPT !.ended = Append(@, outcome)]
    /\ pc' = "done"
    /\ UNCHANGED <<api, cursors, tables, now, cursor, total_count, items,
                   page_num, completed, data, retry, attempts, sleeps, lastErr,
                   connOk, runNo, outcome, reqLog, sinkLog, tapVars, sinkVars,
                   auxVars>>

\* main, lines 668-674: an exception left fetch_all; main prints it, rolls
\* back, re-raises, and the process ends with a traceback
MainRaise ==
    /\ pc = "exit"
    /\ outcome = "raised"
    /\ hist' = [hist EXCEPT !.ended = Append(@, outcome)]
    /\ pc' = "failed"
    /\ UNCHANGED <<api, cursors, tables, now, cursor, total_count, items,
                   page_num, completed, data, retry, attempts, sleeps, lastErr,
                   connOk, runNo, outcome, reqLog, sinkLog, tapVars, sinkVars,
                   auxVars>>

\* the exit status of the process once main has ended
ExitStatus == IF pc = "failed" THEN 1 ELSE 0

\* python raw_funnelfox.py --skip-replies, once
StartMain == runNo = 0 /\ Start

NextMain ==
    \/ StartMain
    \/ \E c \in ScriptCalls : Probe(c)
    \/ \E c \in ScriptCalls : FetchCounted(c)
    \/ \E dbError \in BOOLEAN : SinkPage(dbError)
    \/ SaveStep
    \/ Advance
    \/ ClearStep
    \/ NextResource
    \/ MainEnd
    \/ MainRaise

SpecMain == Init /\ [][NextMain]_vars

----------------------------------------------------------------------------
(* Pages, checkpoints and errors in fetch_all                               *)

\* the page held in data has no records, has_more = true and a next cursor
SparsePage ==
    /\ data.page # 0
    /\ data.data = <<>>
    /\ data.has_more
    /\ Truthy(NextCursor(data))

\* C13: sparse pages. A page with zero records, has_more = true and a next
\* cursor does not complete fetch_all: once the page is past save_cursor the
\* checkpoint holds the new cursor with the count so far, the checkpoint is
\* not cleared, and the next request carries the new cursor; completed is
\* true only after a response whose has_more is false.
C13_SparsePages ==
    /\ completed => (data.page # 0 /\ ~data.has_more)
    /\ (pc \in {"saved", "fetch"} /\ SparsePage) =>
          /\ ~completed
          /\ Endpoint \in DOMAIN cursors
          /\ cursors[Endpoint] = [count |-> total_count + Len(items),
                                  cursor |-> NextCursor(data)]
    /\ (pc = "fetch" /\ SparsePage) =>
          /\ cursor = NextCursor(data)
          /\ reqLog[Len(reqLog)] = NextCursor(data)
          /\ Len(reqLog) = page_num

\* page 2 of 3 was empty; its cursor is saved and page 3 is being requested
C13_Witness ==
    /\ pc = "fetch" /\ SparsePage /\ ContractKept
    /\ api.n = 3 /\ data.page = 2 /\ page_num = 3
    /\ cursor = Tok(2) /\ cursors[Endpoint].cursor = Tok(2)
    /\ cursors[Endpoint].count = MaxPageSize

\* the checkpoints of the endpoints other than the one being synced
OtherCheckpoints(cs) == [e \in DOMAIN cs \ {Endpoint} |-> cs[e]]

\* fetch_page raised in fetch_all's loop
RaisedInLoop == pc = "exit" /\ outcome = "raised" /\ page_num >= 1

\* C15: a fatal error leaves the checkpoint intact. The step in which
\* fetch_page raises out of fetch_all's loop writes nothing to the
\* checkpoint store; afterwards the endpoint's checkpoint is the one saved
\* after the page before (the cursor of the failed request, the count of
\* the records up to that page), or absent when the failed request was the
\* first of a fresh sync; no step of fetch_all changes the checkpoint of
\* another endpoint.
C15_FatalKeepsCheckpoint ==
    /\ [](RaisedInLoop =>
            IF Truthy(cursor)
            THEN /\ Endpoint \in DOMAIN cursors
                 /\ cursors[Endpoint] = [count |-> total_count + Len(items),
                                         cursor |-> cursor]
                 /\ hist.lastNext # None => cursor = hist.lastNext
                 /\ api.fault.kind # "loop" =>
                       cursors[Endpoint].count =
                           SumSizes(api, PageOfCursor(cursor) - 1)
            ELSE Endpoint \notin DOMAIN cursors)
    /\ [][/\ (pc = "fetch" /\ pc' = "exit" /\ outcome' = "raised") =>
                cursors' = cursors
          /\ OtherCheckpoints(cursors') = OtherCheckpoints(cursors)]_vars

\* a 404 on page 2 of 3: the checkpoint saved after page 1 is in the store,
\* next to the other endpoint's
C15_Witness ==
    /\ RaisedInLoop /\ page_num = 2 /\ api.n = 3 /\ runNo = 1
    /\ cursor = Tok(1)
    /\ cursors[Endpoint] = [count |-> MaxPageSize, cursor |-> Tok(1)]
    /\ OtherEndpoint \in DOMAIN cursors

\* the pages of the current endpoint that the checkpoint says are behind
PagesBehind(cs) ==
    IF Endpoint \in DOMAIN cs THEN 1..(PageOfCursor(cs[Endpoint].cursor) - 1)
    ELSE {}

PageRows(i) ==
    {[id |-> ApiRecord(i, j).id, cols |-> <<ApiRecord(i, j).val>>] :
        j \in 1..api.size[i]}

\* the cursors of the requests of a full sync of n pages, in order
CursorChain(n) == [i \in 1..n |-> IF i = 1 THEN None ELSE Tok(i - 1)]

\* C16: every fatal condition is surfaced. Once fetch_all has ended for an
\* endpoint on has_more = true without a next cursor, or on a non-retryable
\* status, main syncs no further endpoint and the process ends with a
\* non-zero exit status.
C16_FatalSurfaced ==
    \A i \in DOMAIN hist.ended :
        hist.ended[i] \in {"no_cursor", "raised"} =>
            /\ i = Len(hist.ended)
            /\ pc = "failed"
            /\ ExitStatus # 0

\* C17: retryable errors are absorbed. Whatever the number (under
\* max_retries) of retryable failures before a successful request,
\* fetch_page hands fetch_all the payload of the page asked for, each page is
\* requested by one fetch_page call, and a sync started without a checkpoint
\* that completes has made the requests, the sink calls and the checkpoint
\* writes of a sync without failures; fetch_page gives up only when a call
\* has made max_retries requests.
C17_RetriesAbsorbed ==
    /\ pc = "got" =>
          /\ data = Response(api, cursor)
          /\ attempts \in 1..max_retries
          /\ Len(reqLog) = page_num
    /\ (pc = "exit" /\ outcome = "exhausted") => attempts = max_retries
    /\ (pc = "exit" /\ outcome = "completed" /\ ContractKept
          /\ hist.startCursor = None) =>
          /\ reqLog = CursorChain(api.n)
          /\ sinkLog = NonEmptyPages(api.n)
          /\ items = AllIds(api.n)
          /\ Endpoint \notin DOMAIN cursors

\* a sync of 3 pages completed; some call had failures, and the call for
\* the last page needed max_retries requests
C17_Witness ==
    /\ pc = "exit" /\ outcome = "completed" /\ ContractKept
    /\ hist.startCursor = None /\ hist.failedAttempt
    /\ attempts = max_retries
    /\ api.n = 3 /\ sinkLog = <<1, 2, 3>> /\ reqLog = CursorChain(3)

\* C18: no page is lost on resume. While the API keeps its contract, the
\* records of every page the checkpoint has moved past are in the
\* destination table, and so are the records of all pages once a sync has
\* completed and cleared the checkpoint.
C18_NoPageLost ==
    ContractKept =>
        /\ epIdx = 1 =>
              \A i \in PagesBehind(cursors) :
                  PageRows(i) \subseteq Rows(tables.sessions)
        /\ (pc = "exit" /\ outcome = "completed" /\ epIdx = 1) =>
              AllRows \subseteq Rows(tables.sessions)

\* the last element of a non-empty sequence
Last(seq) == seq[Len(seq)]

\* C20: strictly sequential fetching. fetch_all passes a further cursor to
\* fetch_page only from the point after save_cursor, when the page before
\* has been handed to the sink (if it holds records) and the checkpoint
\* holds that cursor; main moves to the next endpoint only when fetch_all
\* has ended for the current one (completed, retries exhausted, or has_more
\* without a cursor).
C20_Sequential ==
    [][/\ (reqLog # <<>> /\ Len(reqLog') = Len(reqLog) + 1) =>
             /\ pc = "saved"
             /\ epIdx' = epIdx
             /\ data.data # <<>> => (sinkLog # <<>> /\ Last(sinkLog) = data.page)
             /\ Endpoint \in DOMAIN cursors
             /\ cursors[Endpoint] = [count |-> total_count + Len(items),
                                     cursor |-> Last(reqLog')]
       /\ epIdx' # epIdx =>
             /\ pc = "exit"
             /\ outcome \in {"completed", "exhausted", "no_cursor"}
             /\ pc' = "probe" /\ reqLog' = <<>>]_vars

\* the second endpoint is on its second page after the first one completed
C20_Witness ==
    /\ epIdx = 2 /\ hist.ended = <<"completed">>
    /\ pc = "fetch" /\ page_num = 2 /\ sinkLog = <<1>>
    /\ Len(reqLog) = 2
    /\ Cardinality(tables.sessions) = 3 * MaxPageSize

----------------------------------------------------------------------------
(* Failure classification, backoff and 404 on the replies of a session      *)

\* the failures to be retried while budget remains
ShouldRetry(o) ==
    \/ o.kind \in {"Timeout", "ConnectionError", "ChunkedEncodingError"}
    \/ o.kind = "HTTPError" /\ o.status \in RetryableStatuses

\* the three loops apart, as C11 states them
PageClassified ==
    pc \in {"page_call", "page_returned", "page_raised"} =>
       /\ (ShouldRetry(lastErr) /\ attempts < max_retries) => pc = "page_call"
       /\ IsFatal(lastErr) => pc = "page_raised"

RepliesClassified ==
    pc \in {"replies_call", "replies_got", "replies_raised"} =>
       /\ (ShouldRetry(lastErr) /\ attempts < max_retries) => pc = "replies_call"
       /\ IsFatal(lastErr) => pc = "replies_got"

TapClassified ==
    pc \in {"tap_send", "tap_advance", "tap_done", "tap_failed"} =>
       /\ (ShouldRetry(lastErr) /\ tapSends.page <= MAX_RETRIES) => pc = "tap_send"
       /\ IsFatal(lastErr) => pc = "tap_failed"
       /\ tapInner < MAX_RETRIES =>
             \A o \in Attempts \ {[kind |-> "ok", status |-> 200]} :
                ShouldRetry(o) <=> RequestIter(tapInner, o).ctl = "retry"

\* C11: failure classification. In every reachable state of the three
\* retry loops (fetch_page, fetch_session_replies, the tap's _request) the
\* last failure, when it is a timeout, a connection error, a
\* chunked-encoding error or a status in {408, 429, 500, 502, 503, 504,
\* 524} and budget is left, has left the loop running for another attempt,
\* and when it is another error status it has ended the loop; the tap's
\* _request, while its budget lasts, retries exactly the failures of the
\* first kind.
C11_Classification ==
    /\ PageClassified
    /\ RepliesClassified
    /\ TapClassified

PageCallPcs == {"page_call", "page_returned", "page_raised"}

RepliesPcs == {"replies_call", "replies_got", "replies_raised", "replies_done"}

TapPcs == {"tap_prepare", "tap_send", "tap_advance", "tap_done", "tap_failed",
           "tap_replies_send", "tap_replies_done", "tap_replies_failed"}

\* C12: backoff monotonicity. For attempt numbers 0..5 the wait of
\* fetch_page and the value of backoff_wait_generator equal
\* min(5 * 2^attempt, 60) and the wait of fetch_session_replies equals
\* min(2 * 2^attempt, 30); each is non-decreasing in the attempt number and
\* never above its cap; and the waits the loops have slept are these
\* values, in this order within one loop (the tap's wrapper and its
\* _request each draw from a generator of their own).
C12_BackoffMonotone ==
    /\ \A r \in 0..5 :
          /\ WaitTime(r) = Min(5 * Pow2(r), 60)
          /\ backoff_wait_generator(r) = Min(5 * Pow2(r), 60)
          /\ ReplyWaitTime(r) = Min(2 * Pow2(r), 30)
          /\ WaitTime(r) <= 60
          /\ backoff_wait_generator(r) <= 60
          /\ ReplyWaitTime(r) <= 30
          /\ r < 5 =>
                /\ WaitTime(r) <= WaitTime(r + 1)
                /\ backoff_wait_generator(r) <= backoff_wait_generator(r + 1)
                /\ ReplyWaitTime(r) <= ReplyWaitTime(r + 1)
    /\ pc \in PageCallPcs =>
          \A i \in DOMAIN sleeps : sleeps[i] = Min(5 * Pow2(i - 1), 60)
    /\ pc \in RepliesPcs =>
          \A i \in DOMAIN sleeps : sleeps[i] = Min(2 * Pow2(i - 1), 30)
    /\ pc \in TapPcs =>
          \A i \in DOMAIN tapSleeps :
             /\ tapSleeps[i] <= 60
             /\ tapOuter = 0 => tapSleeps[i] = Min(5 * Pow2(i - 1), 60)
             /\ \E k \in 0..5 : tapSleeps[i] = Min(5 * Pow2(k), 60)

\* the tap has slept through all of one generator, up to the cap
C12_Witness ==
    /\ pc = "tap_send"
    /\ tapOuter = 0
    /\ tapSleeps = <<5, 10, 20, 40, 60>>

\* the script's half of C14: the retry loop ends at once on a 404 ...
ScriptNotFound ==
    (pc \in RepliesPcs /\ lastErr.kind = "HTTPError" /\ lastErr.status = 404) =>
       /\ pc = "replies_got"
       /\ respStatus = 404
       /\ Len(sleeps) = attempts - 1

\* ... and the step after it writes no row, raises nothing and passes on
ScriptNotFoundStep ==
    (pc = "replies_got" /\ respStatus = 404) =>
       /\ tables' = tables
       /\ outcome' = outcome
       /\ sessIdx' = sessIdx + 1
       /\ pc' \in {"replies_call", "replies_done"}

ScriptNotFoundHolds == []ScriptNotFound /\ [][ScriptNotFoundStep]_vars

\* the tap's half of C14
TapNotFound ==
    (pc \in {"tap_replies_send", "tap_replies_done", "tap_replies_failed"}
        /\ lastErr.kind = "HTTPError" /\ lastErr.status = 404) =>
       /\ pc # "tap_replies_failed"
       /\ tapErr = "none"

\* C14: 404 on a child resource. When the replies request of a session
\* answers 404, the script's retry loop ends at once with that answer, and
\* the step that follows writes no row, raises nothing and passes to the
\* next session; the tap's replies stream does not fail on it either.
C14_NotFoundIsEmpty ==
    /\ []ScriptNotFound
    /\ [][ScriptNotFoundStep]_vars
    /\ []TapNotFound

----------------------------------------------------------------------------
(* Page sizes of the requests                                               *)

MaxRequested == 101

\* the page size get_alerts never exceeds
MAX_PAGE_SIZE == 100

\* limit of fetch_all's page requests
limit == 50

NoParams == [by |-> "none", requested |-> 0, size |-> 0, page |-> 0]

\* a caller or a configuration asks for page_size records per page
InitParams ==
    /\ ScriptIdle
    /\ TapIdle
    /\ SinkIdle
    /\ epIdx = 1
    /\ sessIdx = 0
    /\ respStatus = 0
    /\ page_size \in 0..MaxRequested
    /\ params = NoParams
    /\ ExtIdle
    /\ pc = "params"

\* what a request leaves unchanged but its parameters
ParamsFrame ==
    UNCHANGED <<scriptVars, tapVars, sinkVars, epIdx, sessIdx, respStatus,
                page_size, extVars>>

\* ChargebackClient.get_alerts(page, page_size), page_size 100 when the
\* caller leaves it out
get_alerts(page, given) ==
    /\ pc = "params"
    /\ LET requested == IF given THEN page_size ELSE 100 IN
       params' = [by |-> "get_alerts", requested |-> requested,
                  size |-> Min(requested, 100), page |-> page]
    /\ ParamsFrame

\* FunnelFoxStream.get_url_params with "page_size" in the tap's
\* configuration or not
TapUrlParams(given) ==
    /\ pc = "params"
    /\ LET requested == IF given THEN page_size ELSE 50 IN
       params' = [by |-> "get_url_params", requested |-> requested,
                  size |-> requested, page |-> 0]
    /\ ParamsFrame

\* fetch_all's probe
ProbeParams ==
    /\ pc = "params"
    /\ params' = [by |-> "probe", requested |-> page_size, size |-> 1, page |-> 0]
    /\ ParamsFrame

\* fetch_all's page request: query = params.copy(), query["limit"] = limit,
\* whatever limit the caller's params held
FetchAllParams(n) ==
    /\ pc = "params"
    /\ params' = [by |-> "fetch_all", requested |-> page_size, size |-> limit,
                  page |-> n]
    /\ ParamsFrame

NextParams ==
    \/ \E page \in 1..2, given \in BOOLEAN : get_alerts(page, given)
    \/ \E given \in BOOLEAN : TapUrlParams(given)
    \/ ProbeParams
    \/ \E n \in 1..2 : FetchAllParams(n)

SpecParams == InitParams /\ [][NextParams]_vars

\* C19: page size clamp. Every request carries a page size of at most the
\* maximum (100); the page_size get_alerts sends is min(requested, 100);
\* the limit of every page request of fetch_all is 50.
C19_PageSizeClamp ==
    /\ params.size <= MAX_PAGE_SIZE
    /\ params.by = "get_alerts" => params.size = Min(params.requested, 100)
    /\ params.by = "fetch_all" => params.size = 50

\* the parts of C19 about get_alerts and fetch_all
C19_ScriptAndChargeback ==
    /\ params.by \in {"get_alerts", "probe", "fetch_all"} =>
          params.size <= MAX_PAGE_SIZE
    /\ params.by = "get_alerts" => params.size = Min(params.requested, 100)
    /\ params.by = "fetch_all" => params.size = 50

----------------------------------------------------------------------------
(* raw_funnelfox.py: the cursor file as it lies on disk                     *)

\* endpoints with an entry in the file, in the order json.dump writes them
StoreEndpoints == <<"sessions", "subscriptions">>

\* the state save_cursor keeps for an endpoint
StoreStates == [count : 0..1, cursor : {None, "c1", "c2"}]

\* the dicts load_cursors can return
Stores ==
    UNION {[D -> StoreStates] :
             D \in SUBSET {StoreEndpoints[i] : i \in DOMAIN StoreEndpoints}}

\* json.dump(cursors, f): the chunks written to f, one after the other
RECURSIVE DumpEntries(_, _)
DumpEntries(d, i) ==
    IF i > Len(StoreEndpoints) THEN <<>>
    ELSE (IF StoreEndpoints[i] \in DOMAIN d
          THEN <<[t |-> "entry", key |-> StoreEndpoints[i],
                  value |-> d[StoreEndpoints[i]]]>>
          ELSE <<>>) \o DumpEntries(d, i + 1)

json_dump(d) ==
    <<[t |-> "{", key |-> "", value |-> 0]>> \o DumpEntries(d, 1)
        \o <<[t |-> "}", key |-> "", value |-> 0]>>

\* json.load(f): the dict of a complete document, else JSONDecodeError
json_load(content) ==
    LET n == Len(content)
        inner == 2..(n - 1)
    IN
    IF /\ n >= 2
       /\ content[1].t = "{"
       /\ content[n].t = "}"
       /\ \A i \in inner : content[i].t = "entry"
    THEN [ok |-> TRUE,
          value |-> [e \in {content[i].key : i \in inner} |->
                       content[CHOOSE i \in inner : content[i].key = e].value]]
    ELSE [ok |-> FALSE, value |-> <<>>]

\* load_cursors on the file: {} when CURSOR_FILE does not exist
load_file(f) ==
    IF f.exists THEN json_load(f.content) ELSE [ok |-> TRUE, value |-> <<>>]

NoStoreOp == [func |-> "none", endpoint |-> "", cursor |-> None, count |-> 0]

\* the process is between two calls, the file holding any checkpoints or
\* not existing yet
InitStore ==
    /\ ScriptIdle
    /\ TapIdle
    /\ SinkIdle
    /\ epIdx = 1 /\ sessIdx = 0 /\ respStatus = 0 /\ page_size = 0 /\ params = 0
    /\ pager = 0 /\ san = 0 /\ dash = 0
    /\ pc = "store"
    /\ \E d \in Stores, exists \in BOOLEAN :
          /\ exists \/ d = <<>>
          /\ store = [file |-> [exists |-> exists,
                                content |-> IF exists THEN json_dump(d) ELSE <<>>],
                      pc |-> "idle", op |-> NoStoreOp, prev |-> d, next |-> d,
                      ended |-> "none", err |-> "none"]

StoreFrame ==
    UNCHANGED <<scriptVars, tapVars, sinkVars, epIdx, sessIdx, respStatus,
                page_size, params, pager, san, dash>>

\* save_cursor(endpoint, cursor, count) up to its open(), or
\* clear_cursor(endpoint) up to its open(): load_cursors, then the change
\* of the dict.  clear_cursor returns without writing when the endpoint has
\* no entry.
StoreCall(func, endpoint, c, count) ==
    /\ pc = "store"
    /\ store.pc = "idle"
    /\ func = "clear_cursor" => (c = None /\ count = 0)
    /\ LET loaded == load_file(store.file)
           op == [func |-> func, endpoint |-> endpoint, cursor |-> c,
                  count |-> count]
       IN
       IF ~loaded.ok
       THEN store' = [store EXCEPT !.pc = "raised", !.op = op,
                                   !.err = "JSONDecodeError", !.ended = "raised"]
       ELSE IF func = "clear_cursor" /\ endpoint \notin DOMAIN loaded.value
       THEN store' = [store EXCEPT !.op = op, !.prev = loaded.value,
                                   !.next = loaded.value, !.ended = "returned"]
       ELSE store' = [store EXCEPT
                        !.pc = "open", !.op = op, !.prev = loaded.value,
                        !.next = IF func = "save_cursor"
                                 THEN save_cursor(loaded.value, endpoint, c, count)
                                 ELSE clear_cursor(loaded.value, endpoint),
                        !.ended = "none"]
    /\ StoreFrame

\* CURSOR_FILE.open("w") creates the file or truncates it
StoreOpen ==
    /\ pc = "store"
    /\ store.pc = "open"
    /\ store' = [store EXCEPT !.file = [exists |-> TRUE, content |-> <<>>],
                              !.pc = "dump"]
    /\ StoreFrame

\* one more chunk of json.dump reaches the file
StoreWrite ==
    /\ pc = "store"
    /\ store.pc = "dump"
    /\ Len(store.file.content) < Len(json_dump(store.next))
    /\ store' = [store EXCEPT !.file.content =
                    Append(@, json_dump(store.next)[Len(@) + 1])]
    /\ StoreFrame

\* the with block ends after the last chunk; the function returns
StoreClose ==
    /\ pc = "store"
    /\ store.pc = "dump"
    /\ store.file.content = json_dump(store.next)
    /\ store' = [store EXCEPT !.pc = "idle", !.ended = "returned"]
    /\ StoreFrame

\* the process is interrupted inside save_cursor or clear_cursor; a later
\* run finds the file as it is
StoreInterrupt ==
    /\ pc = "store"
    /\ store.pc \in {"open", "dump"}
    /\ store' = [store EXCEPT !.pc = "idle", !.ended = "interrupted"]
    /\ StoreFrame

NextStore ==
    \/ \E endpoint \in {StoreEndpoints[i] : i \in DOMAIN StoreEndpoints},
          st \in StoreStates :
          StoreCall("save_cursor", endpoint, st.cursor, st.count)
    \/ \E endpoint \in {StoreEndpoints[i] : i \in DOMAIN StoreEndpoints} :
          StoreCall("clear_cursor", endpoint, None, 0)
    \/ StoreOpen
    \/ StoreWrite
    \/ StoreClose
    \/ StoreInterrupt

SpecStore == InitStore /\ [][NextStore]_vars

\* C21: interrupt safety of the checkpoint store. At every point of
\* save_cursor and clear_cursor, which is every point an interrupt can
\* fall on, the file decodes to the dict before the call or to the dict
\* the call writes, and no load_cursors of a later call fails.
C21_InterruptSafe ==
    /\ load_file(store.file).ok
    /\ load_file(store.file).value \in {store.prev, store.next}
    /\ store.err = "none"

\* without interrupts the file is whole between the calls
C21_WholeBetweenCalls ==
    (store.pc = "idle" /\ store.ended # "interrupted") =>
        /\ load_file(store.file).ok
        /\ load_file(store.file).value = store.next

\* C22: checkpoint store frame. When save_cursor(endpoint, ...) or
\* clear_cursor(endpoint) has returned, the file holds for every other
\* endpoint the entry it held before the call, or none if it held none;
\* the endpoint's own entry is the saved state, or gone after clear_cursor;
\* clear_cursor of an endpoint without entry leaves the file's dict as it
\* was.
C22_StoreFrame ==
    (store.pc = "idle" /\ store.ended = "returned") =>
        LET after == load_file(store.file) IN
        /\ after.ok
        /\ \A e \in {StoreEndpoints[i] : i \in DOMAIN StoreEndpoints} \ {store.op.endpoint} :
              /\ e \in DOMAIN after.value <=> e \in DOMAIN store.prev
              /\ e \in DOMAIN store.prev => after.value[e] = store.prev[e]
        /\ store.op.func = "save_cursor" =>
              /\ store.op.endpoint \in DOMAIN after.value
              /\ after.value[store.op.endpoint].count = store.op.count
        /\ store.op.func = "clear_cursor" =>
              /\ store.op.endpoint \notin DOMAIN after.value
              /\ store.op.endpoint \notin DOMAIN store.prev =>
                    after.value = store.prev

\* save_cursor has rewritten the entry of one endpoint next to another's
C22_Witness ==
    /\ store.pc = "idle"
    /\ store.ended = "returned"
    /\ store.op.func = "save_cursor"
    /\ store.op.endpoint = "sessions"
    /\ "sessions" \in DOMAIN store.prev
    /\ "subscriptions" \in DOMAIN store.prev
    /\ store.prev["sessions"] # load_file(store.file).value["sessions"]

----------------------------------------------------------------------------
(* tap_chargeback/client.py, tap_ethoca/client.py: iter_alerts              *)

\* what the alerts API serves: n pages, page i holding size[i] alerts; the
\* Chargeback response's "next" is null on page n and past it, the Ethoca
\* response's totalPages is n
AlertFeeds ==
    {f \in [n : 1..MaxPages, size : [1..MaxPages -> 0..MaxPageSize]] :
        \A i \in 1..MaxPages : i > f.n => f.size[i] = 0}

\* what one page request of the clients can do
PagerAttempts ==
    {o \in Attempts : o.kind \in {"ok", "Timeout", "ConnectionError"}
                        \/ o.status \in {401, 429, 503}}

PagerFrame ==
    UNCHANGED <<scriptVars, tapVars, sinkVars, epIdx, sessIdx, respStatus,
                page_size, params, store, san, dash>>

\* a stream starts client.iter_alerts(): page = 1
InitPager ==
    /\ ScriptIdle
    /\ TapIdle
    /\ SinkIdle
    /\ epIdx = 1 /\ sessIdx = 0 /\ respStatus = 0 /\ page_size = 0 /\ params = 0
    /\ store = 0 /\ san = 0 /\ dash = 0
    /\ pc = "pager"
    /\ \E client \in {"chargeback", "ethoca"}, f \in AlertFeeds :
          pager = [client |-> client, feed |-> f, page |-> 1, yielded |-> 0,
                   sends |-> 0, lastErr |-> NoAttempt, pc |-> "request"]

\* the alerts of page p
AlertsOf(f, p) == IF p <= MaxPages THEN f.size[p] ELSE 0

\* One pass of the while loop of ChargebackClient.iter_alerts: get_alerts
\* (one request in _request, raise_for_status), the alerts yielded, "next"
\* looked at.  An HTTPError is logged and raised again, any other exception
\* is not caught.
ChargebackIterAlerts(o) ==
    /\ pc = "pager"
    /\ pager.client = "chargeback"
    /\ pager.pc = "request"
    /\ LET alerts == AlertsOf(pager.feed, pager.page)
           next_is_None == pager.page >= pager.feed.n
       IN
       pager' =
          IF o.kind # "ok"
          THEN [pager EXCEPT !.sends = 1, !.lastErr = o, !.pc = "raised"]
          ELSE IF alerts = 0
          THEN [pager EXCEPT !.sends = 1, !.lastErr = NoAttempt, !.pc = "done"]
          ELSE IF next_is_None
          THEN [pager EXCEPT !.sends = 1, !.lastErr = NoAttempt,
                             !.yielded = @ + alerts, !.pc = "done"]
          ELSE [pager EXCEPT !.sends = 0, !.lastErr = NoAttempt,
                             !.yielded = @ + alerts, !.page = @ + 1]
    /\ PagerFrame

\* One pass of the while loop of EthocaClient.iter_alerts: get_alerts (one
\* requests.get, raise_for_status), the alerts yielded, page compared with
\* totalPages.  No exception is caught.
EthocaIterAlerts(o) ==
    /\ pc = "pager"
    /\ pager.client = "ethoca"
    /\ pager.pc = "request"
    /\ LET alerts == AlertsOf(pager.feed, pager.page)
           total_pages == pager.feed.n
       IN
       pager' =
          IF o.kind # "ok"
          THEN [pager EXCEPT !.sends = 1, !.lastErr = o, !.pc = "raised"]
          ELSE IF alerts = 0
          THEN [pager EXCEPT !.sends = 1, !.lastErr = NoAttempt, !.pc = "done"]
          ELSE IF pager.page >= total_pages
          THEN [pager EXCEPT !.sends = 1, !.lastErr = NoAttempt,
                             !.yielded = @ + alerts, !.pc = "done"]
          ELSE [pager EXCEPT !.sends = 0, !.lastErr = NoAttempt,
                             !.yielded = @ + alerts, !.page = @ + 1]
    /\ PagerFrame

NextPager ==
    \/ \E o \in PagerAttempts : ChargebackIterAlerts(o)
    \/ \E o \in PagerAttempts : EthocaIterAlerts(o)

SpecPager == InitPager /\ [][NextPager]_vars

\* C23: offset-style pagers follow the has-more signal only. iter_alerts
\* of either client ends without an error only on the page whose response
\* signals no more pages (next null, page >= totalPages), so on page n, and
\* by then it has yielded the alerts of all pages.
C23_PagerFollowsSignal ==
    pager.pc = "done" =>
        /\ pager.page >= pager.feed.n
        /\ pager.yielded = SumSizes(pager.feed, pager.feed.n)

\* the pagers on feeds without an empty page before the last
C23_DensePages ==
    (pager.pc = "done" /\ \A i \in 1..(pager.feed.n - 1) : pager.feed.size[i] > 0) =>
        /\ pager.page >= pager.feed.n
        /\ pager.yielded = SumSizes(pager.feed, pager.feed.n)

\* C24: the Ethoca and Chargeback clients retry. iter_alerts of either
\* client gives up on a page only after a fatal failure or after more than
\* one request for that page; a page request that failed with a timeout, a
\* connection error or a retryable status is sent again.
C24_PagerRetries ==
    pager.pc = "raised" =>
        \/ IsFatal(pager.lastErr)
        \/ pager.sends > 1

\* a fatal failure ends the iteration at once
C24_FatalEnds ==
    IsFatal(pager.lastErr) => (pager.pc = "raised" /\ pager.sends = 1)

----------------------------------------------------------------------------
(* meltano/sanitize_unicode.py                                              *)

MaxLines == 2
MaxDepth == 2

\* strings: "a" an ordinary character, "S" a lone surrogate (U+D800..U+DFFF)
Strs == {<<>>, <<"a">>, <<"S">>}

\* A JSON value: a leaf (a string, or a number) under up to MaxDepth
\* containers, each a dict with one key or a list with one item, outermost
\* first.
Wrappers == [t : {"dict"}, key : Strs] \cup {[t |-> "list", key |-> <<>>]}

RECURSIVE WrapSeqs(_)
WrapSeqs(d) ==
    IF d = 0 THEN {<<>>}
    ELSE WrapSeqs(d - 1)
         \cup {<<w>> \o ws : w \in Wrappers, ws \in {x \in WrapSeqs(d - 1) : Len(x) = d - 1}}

JsonValues == [wraps : WrapSeqs(MaxDepth), isStr : BOOLEAN, s : Strs]

\* the lines of stdin: empty after strip, not JSON, JSON that is no object,
\* or a Singer message whose record (RECORD), value (STATE) or schema
\* (SCHEMA, standing for every other type) is body; surrogates are written
\* as escapes
NoBody == [wraps |-> <<>>, isStr |-> FALSE, s |-> <<>>]

InputLines ==
    {[kind |-> k, type |-> "", body |-> NoBody] : k \in {"empty", "text", "json"}}
    \cup {[kind |-> "message", type |-> t, body |-> b] :
            t \in {"RECORD", "STATE", "SCHEMA"},
            b \in {v \in JsonValues : v.isStr \/ v.s = <<>>}}

\* value.encode('utf-8', errors='replace').decode('utf-8')
SanitizeStr(s) == [i \in DOMAIN s |-> IF s[i] = "S" THEN "?" ELSE s[i]]

\* sanitize_value: a dict keeps its keys and a list its length, their
\* values are sanitized; a string is re-encoded; anything else is returned
RECURSIVE sanitize_value(_)
sanitize_value(value) ==
    IF value.wraps = <<>>
    THEN IF value.isStr THEN [value EXCEPT !.s = SanitizeStr(@)] ELSE value
    ELSE LET inner == sanitize_value([value EXCEPT !.wraps = Tail(@)]) IN
         [inner EXCEPT !.wraps = <<Head(value.wraps)>> \o @]

sanitize_value_Shallow(value) ==
    IF value.wraps = <<>> /\ value.isStr
    THEN [value EXCEPT !.s = SanitizeStr(@)] ELSE value

process_message_SanitizeAll(type, body) == sanitize_value(body)

\* process_message on a message of the given type
process_message(type, body) ==
    IF type \in {"RECORD", "STATE"} THEN sanitize_value(body) ELSE body

HasSurrogateStr(s) == \E i \in DOMAIN s : s[i] = "S"

\* a surrogate in a string of the value, keys of dicts included
HasSurrogate(v) ==
    \/ v.isStr /\ HasSurrogateStr(v.s)
    \/ \E i \in DOMAIN v.wraps : HasSurrogateStr(v.wraps[i].key)

\* what stdout, opened with errors='replace', makes of a value
EncodeReplace(v) ==
    [v EXCEPT !.s = SanitizeStr(@),
              !.wraps = [i \in DOMAIN v.wraps |->
                           [v.wraps[i] EXCEPT !.key = SanitizeStr(@)]]]

NoSanLine == [kind |-> "empty", type |-> "", body |-> NoBody]

SanFrame ==
    UNCHANGED <<scriptVars, tapVars, sinkVars, epIdx, sessIdx, respStatus,
                page_size, params, store, pager, dash>>

\* the mapper starts, on Windows (streams reconfigured with
\* errors='replace') or elsewhere (stdout raises on a surrogate)
InitSan ==
    /\ ScriptIdle
    /\ TapIdle
    /\ SinkIdle
    /\ epIdx = 1 /\ sessIdx = 0 /\ respStatus = 0 /\ page_size = 0 /\ params = 0
    /\ store = 0 /\ pager = 0 /\ dash = 0
    /\ pc = "san"
    /\ \E win32 \in BOOLEAN :
          san = [win32 |-> win32, n |-> 0, line |-> NoSanLine,
                 wrote |-> "none", outBody |-> NoBody, outCount |-> 0,
                 lastOut |-> 0, err |-> FALSE]

\* One pass of main's loop over sys.stdin.  wrote tells what went to
\* stdout for the line: the dumped message ("dumped"), the original line
\* from the except Exception branch ("original"), or nothing; outCount
\* counts the lines of stdout, lastOut is the number of the input line the
\* last of them was written for, err tells that the pass wrote to stderr.
SanLine(line) ==
    /\ pc = "san"
    /\ san.n < MaxLines
    /\ LET n == san.n + 1
           read == [san EXCEPT !.n = n, !.line = line]
           sanitized == process_message(line.type, line.body)
       IN
       san' =
          CASE line.kind = "empty" ->
                 [read EXCEPT !.wrote = "none", !.outBody = NoBody,
                              !.err = FALSE]
            [] line.kind = "text" ->
                 [read EXCEPT !.wrote = "none", !.outBody = NoBody,
                              !.err = TRUE]
            [] line.kind = "json" ->
                 [read EXCEPT !.wrote = "original", !.outBody = line.body,
                              !.outCount = @ + 1, !.lastOut = n, !.err = TRUE]
            [] line.kind = "message" /\ ~HasSurrogate(sanitized) ->
                 [read EXCEPT !.wrote = "dumped", !.outBody = sanitized,
                              !.outCount = @ + 1, !.lastOut = n, !.err = FALSE]
            [] line.kind = "message" /\ HasSurrogate(sanitized) /\ san.win32 ->
                 [read EXCEPT !.wrote = "dumped",
                              !.outBody = EncodeReplace(sanitized),
                              !.outCount = @ + 1, !.lastOut = n, !.err = FALSE]
            [] line.kind = "message" /\ HasSurrogate(sanitized) /\ ~san.win32 ->
                 [read EXCEPT !.wrote = "original", !.outBody = line.body,
                              !.outCount = @ + 1, !.lastOut = n, !.err = TRUE]
    /\ SanFrame

NextSan == \E line \in InputLines : SanLine(line)

SpecSan == InitSan /\ [][NextSan]_vars

\* C25: sanitizer output is clean. For a line that is a RECORD or STATE
\* message, the line written to stdout is not the original line, and the
\* message it decodes to has no surrogate in any string of its record or
\* value, at any depth.
C25_OutputClean ==
    (san.line.kind = "message" /\ san.line.type \in {"RECORD", "STATE"}) =>
        /\ san.wrote = "dumped"
        /\ ~HasSurrogate(san.outBody)

\* the strings that are values (not keys) are clean in every dumped line
C25_ValuesClean ==
    (san.line.kind = "message" /\ san.line.type \in {"RECORD", "STATE"}
        /\ san.wrote = "dumped") =>
        ~(san.outBody.isStr /\ HasSurrogateStr(san.outBody.s))

\* one pass of the loop writes one line to stdout for a line that parses
\* as JSON, after the lines written before, and none for any other line
SanOneLineEach ==
    san'.n = san.n + 1 =>
        IF san'.line.kind \in {"json", "message"}
        THEN /\ san'.outCount = san.outCount + 1
             /\ san'.lastOut = san'.n
             /\ san'.lastOut > san.lastOut
        ELSE /\ san'.outCount = san.outCount
             /\ san'.lastOut = san.lastOut

\* a line that does not parse goes to stderr only
SanTextToStderr ==
    san.line.kind = "text" => (san.wrote = "none" /\ san.err)

----------------------------------------------------------------------------
(* dashboard/app.py and dashboard/pages                                     *)

\* what st.secrets holds for DASHBOARD_PASSWORD ("unset": no such secret)
Secrets == {"unset", "pw1", "pw2"}

\* what a visitor can type into the password field
Passwords == {"", "demo", "pw1", "pw2", "bad"}

\* the pages under pages/
Pages == {"1_Overview", "2_Payments", "3_Subscriptions", "4_Funnels"}

NoInput == [password |-> "", login |-> FALSE, logout |-> FALSE]

DashFrame ==
    UNCHANGED <<scriptVars, tapVars, sinkVars, epIdx, sessIdx, respStatus,
                page_size, params, store, pager, san>>

\* a browser session opens: session_state is empty, nothing is rendered
InitDash ==
    /\ ScriptIdle
    /\ TapIdle
    /\ SinkIdle
    /\ epIdx = 1 /\ sessIdx = 0 /\ respStatus = 0 /\ page_size = 0 /\ params = 0
    /\ store = 0 /\ pager = 0 /\ san = 0
    /\ pc = "dash"
    /\ \E secret \in Secrets :
          dash = [secret |-> secret, authenticated |-> "absent",
                  script |-> "none", content |-> FALSE, input |-> NoInput]

\* st.secrets.get("DASHBOARD_PASSWORD", "demo")
correct_password(secret) == IF secret = "unset" THEN "demo" ELSE secret

\* One run of app.py, with the widgets as the visitor left them, st.rerun
\* included: check_password, then st.stop or the sidebar, Logout and the
\* main content.  A rerun starts the script again with no button pressed.
RunApp(password, login, logout) ==
    /\ pc = "dash"
    /\ LET authed == dash.authenticated = "true"
           ran == [dash EXCEPT !.script = "app",
                     !.input = [password |-> password, login |-> login,
                                logout |-> logout]]
       IN
       dash' =
          IF authed
          THEN IF logout
               THEN [ran EXCEPT !.authenticated = "false", !.content = FALSE]
               ELSE [ran EXCEPT !.content = TRUE]
          ELSE IF login /\ password = correct_password(dash.secret)
               THEN [ran EXCEPT !.authenticated = "true", !.content = TRUE]
               ELSE [ran EXCEPT !.authenticated = "false", !.content = FALSE]
    /\ DashFrame

\* one run of a page under pages/: the auth check, then the page
RunPage(p) ==
    /\ pc = "dash"
    /\ dash' = [dash EXCEPT !.script = p, !.input = NoInput,
                            !.content = (dash.authenticated = "true")]
    /\ DashFrame

NextDash ==
    \/ \E password \in Passwords, login \in BOOLEAN, logout \in BOOLEAN :
          RunApp(password, login, logout)
    \/ \E p \in Pages : RunPage(p)

SpecDash == InitDash /\ [][NextDash]_vars

\* the gate itself: content only while authenticated, authenticated false
\* at first, true only after Login with the password check_password
\* compares with, false after Logout
DashGate ==
    /\ dash.content => dash.authenticated = "true"
    /\ dash.script = "none" => dash.authenticated # "true"

DashGateStep ==
    /\ (dash'.authenticated = "true" /\ dash.authenticated # "true") =>
          /\ dash'.script = "app"
          /\ dash'.input.login
          /\ dash'.input.password = correct_password(dash.secret)
    /\ (dash.authenticated = "true" /\ dash'.script = "app" /\ dash'.input.logout) =>
          (dash'.authenticated = "false" /\ ~dash'.content)

DashGateHolds == []DashGate /\ [][DashGateStep]_vars

\* C27: dashboard password gate. Page content is rendered only while
\* authenticated is true; authenticated is not true at first, becomes true
\* only in a run of app.py with Login pressed and a password equal to the
\* configured DASHBOARD_PASSWORD, and is false after Logout.
C27_PasswordGate ==
    /\ []DashGate
    /\ [][(dash'.authenticated = "true" /\ dash.authenticated # "true") =>
             /\ dash'.script = "app"
             /\ dash'.input.login
             /\ dash.secret # "unset"
             /\ dash'.input.password = dash.secret]_vars
    /\ [][(dash.authenticated = "true" /\ dash'.script = "app" /\ dash'.input.logout) =>
             (dash'.authenticated = "false" /\ ~dash'.content)]_vars


----------------------------------------------------------------------------
(* The checkpoint's count                                                   *)

\* the checkpoint of the current endpoint names a cursor and counts the
\* records of the pages the API serves before that cursor
CheckpointCounts ==
    Endpoint \in DOMAIN cursors =>
        /\ Truthy(cursors[Endpoint].cursor)
        /\ cursors[Endpoint].count =
               SumSizes(api, PageOfCursor(cursors[Endpoint].cursor) - 1)

\* fetch_page gave up on the first request of the loop of a run that found
\* no checkpoint: line 170 saves nothing
FreshFirstPageFailure ==
    (pc = "exit" /\ outcome = "exhausted" /\ page_num = 1
        /\ hist.startCursor = None) => Endpoint \notin DOMAIN cursors

\* save_cursor never lowers the count of the checkpoint it overwrites
CountGrows ==
    (Endpoint \in DOMAIN cursors /\ Endpoint \in DOMAIN cursors') =>
        cursors'[Endpoint].count >= cursors[Endpoint].count

\* C28: checkpoint count invariant. Across any sequence of fetch_all runs
\* with resume=True on one resource, every checkpoint written has a
\* non-empty cursor and a count equal to the number of records in all pages
\* that precede that cursor, and retry exhaustion on the first page of a
\* fresh run writes no checkpoint.
C28_CheckpointCount == CheckpointCounts /\ FreshFirstPageFailure

\* the parts of C28 the code keeps: the cursor of a checkpoint is never
\* empty, the count is the records behind the cursor while the API never
\* answers a request with the request's own cursor, the count never
\* decreases from one save to the next, and a first-page failure of a fresh
\* run writes nothing
C28_CountWhileNoLoop ==
    /\ [](Endpoint \in DOMAIN cursors => Truthy(cursors[Endpoint].cursor))
    /\ [](api.fault.kind # "loop" => CheckpointCounts)
    /\ []FreshFirstPageFailure
    /\ [][CountGrows]_vars

\* a resumed run has written a checkpoint behind page 2 of 3
C28_ResumedSave ==
    /\ runNo = 2 /\ api.n = 3 /\ api.fault.kind = "none"
    /\ hist.startCursor = Tok(1)
    /\ Endpoint \in DOMAIN cursors /\ cursors[Endpoint].cursor = Tok(2)
    /\ cursors[Endpoint].count = 2 * MaxPageSize


----------------------------------------------------------------------------
(* Termination of _request and of request_decorator's wrapper               *)

\* a send of _request is pending
TapSending == pc \in {"tap_send", "tap_replies_send"}

\* every send is made by the body of the while loop of _request, inside a
\* call made by the body of the while loop of the wrapper
SendsInsideLoops ==
    TapSending =>
        /\ tapInner <= MAX_RETRIES
        /\ tapOuter < MAX_RETRIES
        /\ \A o \in TapAttempts : ~RequestIter(tapInner, o).final

\* a call of _request has made at most MAX_RETRIES + 1 sends, one per pass
SendsBounded ==
    /\ tapSends.call <= MAX_RETRIES + 1
    /\ tapSends.raised <= MAX_RETRIES + 1
    /\ TapSending => tapSends.call = tapInner

\* a send is counted against the budget of the call of _request, or the call
\* raises into the wrapper, which calls again, or the call returns
SendEndsOrCounts ==
    (TapSending /\ pc' = pc) =>
        \/ tapSends'.call = tapSends.call + 1 /\ tapOuter' = tapOuter
        \/ tapSends'.call = 0 /\ tapSends'.raised = tapSends.call + 1
              /\ tapOuter' = tapOuter + 1
        \/ tapSends' = [call |-> 0, page |-> 0, raised |-> 0]
              /\ tapInner' = 0 /\ tapOuter' = 0

\* C29: _request always terminates. For every sequence of send outcomes it
\* returns or raises after at most MAX_RETRIES + 1 sends, every exit is
\* taken inside the while loop, the send after the loop is never made, and
\* the call of func after the wrapper's loop is never made.
C29_RequestTerminates ==
    /\ [](SendsInsideLoops /\ SendsBounded)
    /\ [][SendEndsOrCounts]_vars

\* a call of _request raised after MAX_RETRIES + 1 sends, all of them
\* failed retryably, in the last call the wrapper makes
C29_Witness ==
    /\ pc = "tap_failed" /\ onlyRetryable
    /\ tapSends.raised = MAX_RETRIES + 1
    /\ tapInner = MAX_RETRIES + 1
    /\ tapOuter = MAX_RETRIES


----------------------------------------------------------------------------
(* The cursor's way through the next-page token                             *)

\* the request for a page after the first is prepared: its cursor parameter
\* came out of the token get_next_url built from the response before
TokenUsed == pc = "tap_send" /\ tapPages >= 2 /\ tapValue # NoneC

\* what get_next_url reads back from the URL of the request sent with c
current_cursor(c) == ParseQsFirst(RequestQuery(c), CursorName)

\* the cursor read for loop detection is the cursor that was sent
C30_ReadBack ==
    TokenUsed => current_cursor(tapCursor) = tapCursor

\* C30: cursor round-trip in the tap. The cursor parameter get_url_params
\* extracts from the token built by get_next_url equals the next_cursor the
\* API returned, and the cursor get_next_url reads back from the request
\* URL equals the cursor that was sent.
C30_CursorRoundTrip ==
    TokenUsed =>
        /\ tapCursor = tapResp.next_cursor
        /\ current_cursor(tapCursor) = tapCursor

====
